---- MODULE Spec2Model ----
(***************************************************************************)
(* A model of the hold-to-talk translator: the front-panel State           *)
(* (src/main.py), the two keyboard backends (src/keyboard_input.py,        *)
(* src/keyboard_input_evdev.py), the microphone recorder                   *)
(* (src/microphone_record.py), translate_text (src/argos_translator.py)    *)
(* and the Argos pair installers (src/argos_installer.py,                  *)
(* src/argos_install_helper.py); the language detection of the desktop     *)
(* version (src/past-versions/translator_gui.py) and of                    *)
(* src/language_popularity.py; the Vosk transcription and the hold-to-talk *)
(* recording of src/pi_translator.py; speak (src/tts.py); and the          *)
(* push-to-talk release handler of src/main.py.                            *)
(*                                                                         *)
(* Each component has its own specification over the shared variables; a   *)
(* specification keeps the variables of the other components at their      *)
(* initial values.                                                         *)
(***************************************************************************)
EXTENDS Integers, Sequences, FiniteSets, TLC

VARIABLES
    \* ---- main.State -------------------------------------------------
    mode,        \* State.mode: "target" or "source"
    target,      \* State.target
    source,      \* State.source; None is auto-detect
    zero_times,  \* State._zero_times: the times of the recent '0' presses
    now,         \* time.time(), in ticks of half a second
    said,        \* the last speak(text, lang) request
    \* ---- KeyboardInput (pynput or evdev backend) ----------------------
    backend,     \* which module main.py imported: "pynput" or "evdev"
    running,     \* the listener is still delivering events
    ptt_active,  \* KeyboardInput._ptt_active
    calls,       \* history: the on_ptt_down / on_ptt_up calls, in order
    \* ---- MicrophoneRecorder -------------------------------------------
    m_stream,    \* _stream is not None
    m_sr,        \* _sr_in
    m_recording, \* _recording
    m_q,         \* _q, the queue of audio blocks
    m_pc,        \* where the thread calling start()/stop() is
    m_chunks,    \* stop()'s local list chunks
    m_ret,       \* what the last stop() returned
    cb_pc,       \* where the audio thread is inside _callback
    cb_blk,      \* the block _callback is about to enqueue
    nblk,        \* the number of blocks the stream has delivered
    g_on,        \* history: blocks enqueued while _recording, since the last stop()
    g_snap,      \* history: g_on when the last stop() returned
    g_offput,    \* history: a block was enqueued while _recording was False
    \* ---- Argos Translate, as the repository sees it -------------------
    a_importable, \* import argostranslate succeeds
    a_pkgs,       \* the installed translation pairs <<from_code, to_code>>
    a_raises,     \* Language.get_translation raises for a missing pair
                  \* (else it returns None)
    i_index,      \* the packages of the Argos index (get_available_packages)
    i_online,     \* update_package_index succeeds
    i_dlfail,     \* the packages whose download() raises
    i_instfail,   \* the packages whose install_from_path raises
    \* ---- argos_install_helper.main ------------------------------------
    h_pc,         \* where the script is: "idle", "loop", "done" or "exit"
    h_i,          \* the position of the install loop in the list of pairs
    h_installed,  \* the list installed
    h_skipped,    \* the list skipped
    h_failed,     \* the list failed
    h_run,        \* history: the number of runs started
    h_pre,        \* history: the pairs installed when the run started
    h_touched,    \* history: the pairs this run called download() for
    h_after_clean, \* history: the run before this one ended with failed empty
    \* ---- pi_translator.recognize_speech_hold --------------------------
    r_pc,         \* where the call is: "idle", "w_quit", "w_hold", "r_quit",
                  \* "r_hold", "r_read" or "done"
    r_holding,    \* InputController._holding
    r_quit,       \* InputController._quit
    r_limit,      \* whether max_seconds is given
    r_buf,        \* audio_buf
    r_ret,        \* what the call returned
    r_started,    \* history: the recording has started
    r_quit_first, \* history: quit was requested before the recording started
    \* ---- translate_text ----------------------------------------------
    t_cache,      \* the lru_cache of _translate_direct_cached
    t_ncalls,     \* history: the number of translate_text calls made
    \* ---- the last operation and what it did (history) ----------------
    ev

None == "None"

\* ------------------------------------------------------------------------
\* Bounds
\* ------------------------------------------------------------------------
MaxTime == 4
\* the on_ptt_down / on_ptt_up calls a run of the keyboard listener logs
MaxPtt == 4
\* the audio blocks the stream delivers in a run of the recorder
MaxBlocks == 3
\* the translate_text calls of a run
MaxTrCalls == 2
\* the runs of the install helper
MaxRuns == 2

\* ------------------------------------------------------------------------
\* main.py: the front panel
\* ------------------------------------------------------------------------
ASCIIDigits == {"0", "1", "2", "3", "4", "5", "6", "7", "8", "9"}

\* A character for which str.isdigit() holds and that DIGIT_TO_LANG does not
\* list (ARABIC-INDIC DIGIT THREE): the pynput backend passes it to on_digit.
OtherDigit == "u0663"

DIGIT_TO_LANG ==
    [d \in ASCIIDigits |->
        CASE d = "0" -> "en" [] d = "1" -> "zh" [] d = "2" -> "es"
          [] d = "3" -> "fr" [] d = "4" -> "de" [] d = "5" -> "ja"
          [] d = "6" -> "pt" [] d = "7" -> "it" [] d = "8" -> "ru"
          [] d = "9" -> "ko"]

Langs == {DIGIT_TO_LANG[d] : d \in ASCIIDigits}

\* The 1.0 s window of feed_digit, in ticks (now counts half seconds).
ZeroWindow == 2

Speech(text, lang) == [text |-> text, lang |-> lang]

\* mode.capitalize() of toggle_mode's announcement
Capitalize(m) == IF m = "target" THEN "Target" ELSE "Source"

\* A faulty variant of Toggled: the mode is set, never switched back.
ToggleBroken(m) == "source"
\* The value toggle_mode assigns to self.mode.
Toggled(m) == IF m = "target" THEN "source" ELSE "target"

\* State.toggle_mode
toggle_mode ==
    /\ mode' = Toggled(mode)
    /\ said' = Speech(<<Capitalize(mode'), "selection mode.">>, "en")
    /\ UNCHANGED <<target, source, zero_times>>

\* [t for t in self._zero_times if now - t < 1.0]
RecentZeros(zt, t) == SelectSeq(zt, LAMBDA x : t - x < ZeroWindow)

\* self._zero_times after the first branch of feed_digit, before the test of
\* its length
ZerosAfter(d) ==
    IF d = "0" THEN Append(RecentZeros(zero_times, now), now) ELSE <<>>

\* The third '0' within the window: the quick profile (auto -> en).
QuickProfile(d) == d = "0" /\ Len(ZerosAfter(d)) >= 3

\* A faulty variant of feed_digit: the digit always sets the target.
feed_digit_ignores_mode(d) ==
    IF QuickProfile(d)
    THEN /\ zero_times' = <<>>
         /\ source' = None
         /\ target' = "en"
         /\ said' = Speech(<<"Quick profile: auto detect to English.">>, "en")
         /\ UNCHANGED mode
    ELSE /\ zero_times' = ZerosAfter(d)
         /\ IF d \notin DOMAIN DIGIT_TO_LANG
            THEN UNCHANGED <<mode, target, source, said>>
            ELSE /\ target' = DIGIT_TO_LANG[d]
                 /\ said' = Speech(<<"Target set to", DIGIT_TO_LANG[d]>>, "en")
                 /\ UNCHANGED <<mode, source>>
\* State.feed_digit(d)
feed_digit(d) ==
    IF QuickProfile(d)
    THEN /\ zero_times' = <<>>
         /\ source' = None
         /\ target' = "en"
         /\ said' = Speech(<<"Quick profile: auto detect to English.">>, "en")
         /\ UNCHANGED mode
    ELSE /\ zero_times' = ZerosAfter(d)
         /\ IF d \notin DOMAIN DIGIT_TO_LANG
            THEN UNCHANGED <<mode, target, source, said>>
            ELSE IF mode = "target"
                 THEN /\ target' = DIGIT_TO_LANG[d]
                      /\ said' = Speech(<<"Target set to", DIGIT_TO_LANG[d]>>, "en")
                      /\ UNCHANGED <<mode, source>>
                 ELSE /\ source' = DIGIT_TO_LANG[d]
                      /\ said' = Speech(<<"Microphone recognition set to",
                                          DIGIT_TO_LANG[d]>>, "en")
                      /\ UNCHANGED <<mode, target>>

\* State.__init__
StateInit ==
    /\ mode = "target"
    /\ target = "en"
    /\ source = "en"
    /\ zero_times = <<>>

stateVars == <<mode, target, source, zero_times>>
kbdVars == <<backend, running, ptt_active, calls>>
micVars == <<m_stream, m_sr, m_recording, m_q, m_pc, m_chunks, m_ret, cb_pc,
             cb_blk, nblk, g_on, g_snap, g_offput>>
argosVars == <<a_importable, a_pkgs, a_raises, i_index, i_online, i_dlfail,
               i_instfail>>
trVars == <<t_cache, t_ncalls>>
helperVars == <<h_pc, h_i, h_installed, h_skipped, h_failed, h_run, h_pre,
                h_touched, h_after_clean>>
holdVars == <<r_pc, r_holding, r_quit, r_limit, r_buf, r_ret, r_started,
              r_quit_first>>
vars == <<stateVars, now, said, kbdVars, micVars, argosVars, trVars,
          helperVars, holdVars, ev>>

\* What each component leaves alone: the variables of the other components.
exState == <<kbdVars, micVars, argosVars, trVars, helperVars, holdVars>>
exPanel == <<argosVars, trVars, helperVars, holdVars>>
exMic == <<stateVars, now, said, kbdVars, argosVars, trVars, helperVars, holdVars>>
exTr == <<stateVars, now, said, kbdVars, micVars, helperVars, holdVars>>
exIns == <<stateVars, now, said, kbdVars, micVars, trVars, helperVars, holdVars>>
exHelper == <<stateVars, now, said, kbdVars, micVars, trVars, holdVars>>
exHold == <<stateVars, now, said, kbdVars, micVars, argosVars, trVars,
            helperVars>>

NoSpeech == Speech(<<>>, "")
Op(name, arg, branch) == [op |-> name, arg |-> arg, branch |-> branch]

\* ------------------------------------------------------------------------
\* argos_translator.py
\* ------------------------------------------------------------------------
\* A text is a sequence of words; the empty text is <<>>, a text of white
\* space is <<" ">>, and the translation of x into language d is x with d put
\* in front.
BRIDGE_LANG == "en"
EmptyText == <<>>
Blank == <<" ">>
Translated(d, x) == <<d>> \o x

\* A faulty variant of Strip: white space is kept.
StripNothing(x) == x
\* str.strip()
Strip(x) == IF x = Blank THEN EmptyText ELSE x

\* The codes of tx.get_installed_languages(): every language some installed
\* package translates from or to.
InstalledLangs == {p[1] : p \in a_pkgs} \cup {p[2] : p \in a_pkgs}

\* _get_lang_obj(tx, code) is not None
HasLang(code) == code \in InstalledLangs

\* _pair_exists(tx, src, dst): get_translation gives a translation; for a
\* missing pair it raises or returns None, and both mean False.
PairExists(s, d) == HasLang(s) /\ HasLang(d) /\ <<s, d>> \in a_pkgs

\* What t.translate(text) may do: raise, or return some text.
Outcome(raises, text) == [raises |-> raises, text |-> text]
EngineOutcomes(d, x) ==
    {Outcome(TRUE, EmptyText)} \cup
    {Outcome(FALSE, y) : y \in {EmptyText, Blank, x, Translated(d, x)}}

\* The body of _translate_direct_cached, run on a cache miss; o is what
\* t.translate does if it is reached.
TranslateUncached(s, d, x, o) ==
    IF ~a_importable THEN x
    ELSE IF ~HasLang(s) \/ ~HasLang(d) THEN x
    ELSE IF <<s, d>> \notin a_pkgs THEN x
    ELSE IF o.raises THEN x
    ELSE o.text

\* _translate_direct(src, dst, text) with the cache as it stands: (success,
\* out), and the cache afterwards.
TranslateDirect(cache, s, d, x, o) ==
    LET key == <<s, d, x>>
        hit == key \in DOMAIN cache
        out == IF hit THEN cache[key] ELSE TranslateUncached(s, d, x, o)
    IN [ok    |-> (Strip(out) # EmptyText /\ out # x) \/ (s = d /\ out = x),
        out   |-> out,
        cache |-> IF hit THEN cache ELSE cache @@ (key :> out)]

\* _can_bridge(tx, src, dst)
CanBridge(s, d) ==
    /\ s # BRIDGE_LANG /\ d # BRIDGE_LANG
    /\ PairExists(s, BRIDGE_LANG)
    /\ PairExists(BRIDGE_LANG, d)

\* The record of one translate_text call: out is what it returns; path,
\* direct, hop1 and hop2 tell which _translate_direct calls it made and what
\* each gave.
NotTried == [tried |-> FALSE, ok |-> FALSE, out |-> EmptyText]
Tried(r) == [tried |-> TRUE, ok |-> r.ok, out |-> r.out]
Result(out, path, direct, hop1, hop2, cache) ==
    [out |-> out, path |-> path, direct |-> direct, hop1 |-> hop1,
     hop2 |-> hop2, cache |-> cache]

\* A faulty variant of translate_text: a failed second hop returns the
\* intermediate text.
translate_text_keeps_partial(cache, src, dst, text, o1, o2, o3) ==
    IF text = EmptyText \/ Strip(text) = EmptyText
    THEN Result(text, "blank", NotTried, NotTried, NotTried, cache)
    ELSE IF ~a_importable
    THEN Result(text, "no_argos", NotTried, NotTried, NotTried, cache)
    ELSE
    LET has == PairExists(src, dst)
        d == IF has THEN TranslateDirect(cache, src, dst, text, o1)
             ELSE [ok |-> FALSE, out |-> EmptyText, cache |-> cache]
        direct == IF has THEN Tried(d) ELSE NotTried
    IN  IF has /\ d.ok
        THEN Result(d.out, "direct", direct, NotTried, NotTried, d.cache)
        ELSE IF CanBridge(src, dst)
        THEN LET h1 == TranslateDirect(d.cache, src, BRIDGE_LANG, text, o2)
             IN IF ~h1.ok \/ Strip(h1.out) = EmptyText
                THEN Result(text, "hop1_failed", direct, Tried(h1), NotTried,
                            h1.cache)
                ELSE LET h2 == TranslateDirect(h1.cache, BRIDGE_LANG, dst,
                                               h1.out, o3)
                     IN IF h2.ok
                        THEN Result(h2.out, "bridge", direct, Tried(h1),
                                    Tried(h2), h2.cache)
                        ELSE Result(h1.out, "hop2_failed", direct, Tried(h1),
                                    Tried(h2), h2.cache)
        ELSE Result(text, "none", direct, NotTried, NotTried, d.cache)

\* translate_text(src_code, dst_code, text). o1, o2, o3 are what t.translate
\* does in the direct call and in the two hops, where they are reached.
translate_text(cache, src, dst, text, o1, o2, o3) ==
    IF text = EmptyText \/ Strip(text) = EmptyText
    THEN Result(text, "blank", NotTried, NotTried, NotTried, cache)
    ELSE IF ~a_importable
    THEN Result(text, "no_argos", NotTried, NotTried, NotTried, cache)
    ELSE
    LET has == PairExists(src, dst)
        d == IF has THEN TranslateDirect(cache, src, dst, text, o1)
             ELSE [ok |-> FALSE, out |-> EmptyText, cache |-> cache]
        direct == IF has THEN Tried(d) ELSE NotTried
    IN  IF has /\ d.ok
        THEN Result(d.out, "direct", direct, NotTried, NotTried, d.cache)
        ELSE IF CanBridge(src, dst)
        THEN LET h1 == TranslateDirect(d.cache, src, BRIDGE_LANG, text, o2)
             IN IF ~h1.ok \/ Strip(h1.out) = EmptyText
                THEN Result(text, "hop1_failed", direct, Tried(h1), NotTried,
                            h1.cache)
                ELSE LET h2 == TranslateDirect(h1.cache, BRIDGE_LANG, dst,
                                               h1.out, o3)
                     IN IF h2.ok
                        THEN Result(h2.out, "bridge", direct, Tried(h1),
                                    Tried(h2), h2.cache)
                        ELSE Result(text, "hop2_failed", direct, Tried(h1),
                                    Tried(h2), h2.cache)
        ELSE Result(text, "none", direct, NotTried, NotTried, d.cache)

\* recognize_speech_hold is not running
HoldIdle ==
    /\ r_pc = "idle"
    /\ r_holding = FALSE
    /\ r_quit = FALSE
    /\ r_limit = FALSE
    /\ r_buf = <<>>
    /\ r_ret = [kind |-> "running", raw |-> <<>>]
    /\ r_started = FALSE
    /\ r_quit_first = FALSE

\* The helper before its first run
HelperIdle ==
    /\ h_pc = "idle"
    /\ h_i = 0
    /\ h_installed = <<>>
    /\ h_skipped = <<>>
    /\ h_failed = <<>>
    /\ h_run = 0
    /\ h_pre = {}
    /\ h_touched = {}
    /\ h_after_clean = FALSE

\* Argos and the translator before any call, for a specification that makes
\* none
ArgosIdle ==
    /\ a_importable = TRUE
    /\ a_pkgs = {}
    /\ a_raises = FALSE
    /\ i_index = {}
    /\ i_online = FALSE
    /\ i_dlfail = {}
    /\ i_instfail = {}
    /\ t_cache = <<>>
    /\ t_ncalls = 0
    /\ HelperIdle
    /\ HoldIdle

\* ------------------------------------------------------------------------
\* argos_installer.py and argos_install_helper.py: installing one pair
\* ------------------------------------------------------------------------
\* What one installer call did: what it returned, the installed pairs
\* afterwards, the download() and install_from_path() calls it made, and the
\* step at which it gave up ("" when it did not).
Installer(ret, pkgs, downloads, installs, failed_at) ==
    [ret |-> ret, pkgs |-> pkgs, downloads |-> downloads,
     installs |-> installs, failed_at |-> failed_at]

\* The try block of ensure_pair (and of install_pair): to_install.download()
\* and pkg.install_from_path(), each called once.
DownloadAndInstall(s, d) ==
    IF <<s, d>> \in i_dlfail \/ ~i_online
    THEN Installer(FALSE, a_pkgs, 1, 0, "download")
    ELSE IF <<s, d>> \in i_instfail
    THEN Installer(FALSE, a_pkgs, 1, 1, "install")
    ELSE Installer(TRUE, a_pkgs \cup {<<s, d>>}, 1, 1, "")

\* The "already installed?" test of ensure_pair, and pair_exists of the
\* helper: both languages are installed and s.get_translation(d) does not
\* raise. For a missing pair get_translation raises or returns None; the
\* value it returns is not looked at.
GetTranslationPasses(s, d) ==
    /\ HasLang(s) /\ HasLang(d)
    /\ <<s, d>> \in a_pkgs \/ ~a_raises

\* argos_installer.ensure_pair(src_code, dst_code)
ensure_pair(s, d) ==
    IF ~a_importable THEN Installer(FALSE, a_pkgs, 0, 0, "import")
    ELSE IF GetTranslationPasses(s, d) THEN Installer(TRUE, a_pkgs, 0, 0, "")
    ELSE IF ~i_online THEN Installer(FALSE, a_pkgs, 0, 0, "index")
    ELSE IF <<s, d>> \notin i_index THEN Installer(FALSE, a_pkgs, 0, 0, "no_package")
    ELSE DownloadAndInstall(s, d)

\* argos_install_helper.pair_exists(tx, src, dst)
pair_exists(s, d) == GetTranslationPasses(s, d)

\* argos_install_helper.find_package(pkg, src, dst) is not None
find_package(s, d) == <<s, d>> \in i_index

\* A faulty variant of install_pair: a failed download is tried once more.
install_pair_retries(s, d) ==
    IF ~find_package(s, d) THEN Installer(FALSE, a_pkgs, 0, 0, "no_package")
    ELSE IF <<s, d>> \in i_dlfail \/ ~i_online
    THEN Installer(FALSE, a_pkgs, 2, 0, "download")
    ELSE DownloadAndInstall(s, d)

\* argos_install_helper.install_pair(pkg, src, dst)
install_pair(s, d) ==
    IF ~find_package(s, d) THEN Installer(FALSE, a_pkgs, 0, 0, "no_package")
    ELSE DownloadAndInstall(s, d)

\* ------------------------------------------------------------------------
\* argos_install_helper.py: main
\* ------------------------------------------------------------------------
EN == "en"

\* sorted({code for code in DIGIT_TO_LANG.values() if code != EN})
Targets == <<"de", "es", "fr", "it", "ja", "ko", "pt", "ru", "zh">>

\* The pairs in the order of the install loop: for each target, EN -> tgt and
\* then tgt -> EN.
HelperPairs ==
    [i \in 1 .. 2 * Len(Targets) |->
        IF i % 2 = 1 THEN <<EN, Targets[(i + 1) \div 2]>>
        ELSE <<Targets[i \div 2], EN>>]

\* The lists and the installed pairs after one handle_pair call.
Handled(installed, skipped, failed, pkgs, touched) ==
    [installed |-> installed, skipped |-> skipped, failed |-> failed,
     pkgs |-> pkgs, touched |-> touched]

\* A faulty variant of handle_pair: a skipped pair is installed all the same.
handle_pair_falls_through(s, d) ==
    LET r == install_pair(s, d)
        sk == IF pair_exists(s, d) THEN Append(h_skipped, <<s, d>>) ELSE h_skipped
    IN IF r.ret
       THEN Handled(Append(h_installed, <<s, d>>), sk, h_failed, r.pkgs,
                    h_touched \cup {<<s, d>>})
       ELSE Handled(h_installed, sk, Append(h_failed, <<s, d>>), r.pkgs,
                    IF r.downloads > 0 THEN h_touched \cup {<<s, d>>}
                    ELSE h_touched)

\* handle_pair(src, dst) of main
handle_pair(s, d) ==
    IF pair_exists(s, d)
    THEN Handled(h_installed, Append(h_skipped, <<s, d>>), h_failed, a_pkgs,
                 h_touched)
    ELSE LET r == install_pair(s, d)
             touched == IF r.downloads > 0 THEN h_touched \cup {<<s, d>>}
                        ELSE h_touched
         IN IF r.ret
            THEN Handled(Append(h_installed, <<s, d>>), h_skipped, h_failed,
                         r.pkgs, touched)
            ELSE Handled(h_installed, h_skipped, Append(h_failed, <<s, d>>),
                         r.pkgs, touched)

\* ------------------------------------------------------------------------
\* microphone_record.py: MicrophoneRecorder
\* ------------------------------------------------------------------------
\* MicConfig.desired_rate, and the rate stop() resamples to
DesiredRate == 16000
\* A device default rate that differs from the desired one
DeviceRate == 48000

NoAudio == [blocks |-> <<>>, resampled_from |-> DesiredRate]

\* MicrophoneRecorder.__init__
MicInit ==
    /\ m_stream = FALSE
    /\ m_sr = DesiredRate
    /\ m_recording = FALSE
    /\ m_q = <<>>
    /\ m_pc = "idle"
    /\ m_chunks = <<>>
    /\ m_ret = None
    /\ cb_pc = "idle"
    /\ cb_blk = 0
    /\ nblk = 0
    /\ g_on = <<>>
    /\ g_snap = <<>>
    /\ g_offput = FALSE

\* MicrophoneRecorder.start: the stream is opened on the first call, at the
\* desired rate when the device supports it and at the device's default rate
\* otherwise (_open_stream).
start ==
    /\ IF m_stream
       THEN UNCHANGED <<m_stream, m_sr>>
       ELSE /\ m_stream' = TRUE
            /\ m_sr' \in {DesiredRate, DeviceRate}
    /\ m_recording' = TRUE

\* ------------------------------------------------------------------------
\* keyboard_input.py (pynput) and keyboard_input_evdev.py (evdev)
\* ------------------------------------------------------------------------
\* The keys of the model: keypad and top-row digits, the keys that may mean
\* '.', a non-ASCII digit character, and the control keys.
Keys == {"kp0", "kp1", "row0", "kpdot", "period", "comma", "delete",
         "arabic3", "num_lock", "backspace", "esc", "letter"}

\* keyboard_input.VK_TO_CHAR, on the keys that carry one of its vk codes
VK_TO_CHAR == [k \in {"kp0", "kp1", "kpdot"} |->
                 CASE k = "kp0" -> "0" [] k = "kp1" -> "1" [] k = "kpdot" -> "."]

\* key.char of the pynput KeyCode keys
KeyChar == [k \in {"row0", "period", "comma", "arabic3", "letter"} |->
              CASE k = "row0" -> "0" [] k = "period" -> "." [] k = "comma" -> ","
                [] k = "arabic3" -> OtherDigit [] k = "letter" -> "a"]

\* str.isdigit()
IsDigit(ch) == ch \in ASCIIDigits \cup {OtherDigit}

\* keyboard_input._normalize_char
NormalizeChar(k) ==
    IF k \in DOMAIN VK_TO_CHAR THEN VK_TO_CHAR[k]
    ELSE IF k = "delete" THEN "."
    ELSE IF k \in DOMAIN KeyChar
         THEN LET ch == IF KeyChar[k] = "," THEN "." ELSE KeyChar[k]
              IN IF IsDigit(ch) \/ ch = "." THEN ch ELSE None
    ELSE None

\* keyboard_input_evdev.KEYPAD_DIGITS and TOPROW_DIGITS
KEYPAD_DIGITS == [k \in {"kp0", "kp1"} |-> IF k = "kp0" THEN "0" ELSE "1"]
TOPROW_DIGITS == [k \in {"row0"} |-> "0"]

\* What a handler does with an event: the callback it calls (with its
\* argument), or nothing.
Call(cb, arg) == [cb |-> cb, arg |-> arg]
Nothing == Call("", "")

\* A faulty variant of PynputHandler: every Backspace press starts a hold.
PynputEveryPress(k, st) ==
    IF st = "down"
    THEN IF k = "num_lock" THEN Nothing
         ELSE IF NormalizeChar(k) # None /\ IsDigit(NormalizeChar(k))
              THEN Call("on_digit", NormalizeChar(k))
         ELSE IF k = "backspace" THEN Call("on_ptt_down", "")
         ELSE Nothing
    ELSE IF k = "esc" THEN Call("on_exit", "")
         ELSE IF k = "num_lock" THEN Nothing
         ELSE IF NormalizeChar(k) = "." THEN Call("on_toggle_mode", "")
         ELSE IF k = "backspace" /\ ptt_active THEN Call("on_ptt_up", "")
         ELSE Nothing

\* A faulty variant of PynputHandler: a key release during a hold ends it.
PynputAnyRelease(k, st) ==
    IF st = "down"
    THEN IF k = "num_lock" THEN Nothing
         ELSE IF NormalizeChar(k) # None /\ IsDigit(NormalizeChar(k))
              THEN Call("on_digit", NormalizeChar(k))
         ELSE IF k = "backspace" /\ ~ptt_active THEN Call("on_ptt_down", "")
         ELSE Nothing
    ELSE IF k = "esc" THEN Call("on_exit", "")
         ELSE IF k = "num_lock" THEN Nothing
         ELSE IF ptt_active /\ k # "backspace" THEN Call("on_ptt_up", "")
         ELSE IF NormalizeChar(k) = "." THEN Call("on_toggle_mode", "")
         ELSE Nothing

\* KeyboardInput._on_press (st = "down") and _on_release (st = "up") of the
\* pynput backend
PynputHandler(k, st) ==
    IF st = "down"
    THEN IF k = "num_lock" THEN Nothing
         ELSE IF NormalizeChar(k) # None /\ IsDigit(NormalizeChar(k))
              THEN Call("on_digit", NormalizeChar(k))
         ELSE IF k = "backspace" /\ ~ptt_active THEN Call("on_ptt_down", "")
         ELSE Nothing
    ELSE IF k = "esc" THEN Call("on_exit", "")
         ELSE IF k = "num_lock" THEN Nothing
         ELSE IF NormalizeChar(k) = "." THEN Call("on_toggle_mode", "")
         ELSE IF k = "backspace" /\ ptt_active THEN Call("on_ptt_up", "")
         ELSE Nothing

\* The body of the read loop of KeyboardInput.run of the evdev backend, for
\* one EV_KEY event; keystate is "up" (0), "down" (1) or "hold" (2).
EvdevHandler(k, st) ==
    IF k = "num_lock" THEN Nothing
    ELSE IF k = "esc" /\ st = "up" THEN Call("on_exit", "")
    ELSE IF st = "down" /\ k \in DOMAIN KEYPAD_DIGITS
         THEN Call("on_digit", KEYPAD_DIGITS[k])
    ELSE IF st = "down" /\ k \in DOMAIN TOPROW_DIGITS
         THEN Call("on_digit", TOPROW_DIGITS[k])
    ELSE IF st = "down" /\ k = "backspace" /\ ~ptt_active
         THEN Call("on_ptt_down", "")
    ELSE IF st = "up" /\ k \in {"period", "kpdot", "delete"}
         THEN Call("on_toggle_mode", "")
    ELSE IF st = "up" /\ k = "backspace" /\ ptt_active
         THEN Call("on_ptt_up", "")
    ELSE Nothing

\* KeyboardInput.__init__, for a specification that sends no key events
KbdIdle ==
    /\ backend = "pynput"
    /\ running = TRUE
    /\ ptt_active = FALSE
    /\ calls = <<>>

\* The key states each backend reports: pynput reports auto-repeat as further
\* presses, evdev as keystate 2.
KeyStates == IF backend = "pynput" THEN {"down", "up"} ELSE {"down", "up", "hold"}

Handler(k, st) ==
    IF backend = "pynput" THEN PynputHandler(k, st) ELSE EvdevHandler(k, st)

\* main.on_ptt_down: mic.start(); speak("Listening.")
on_ptt_down ==
    /\ start
    /\ said' = Speech(<<"Listening.">>, "en")
    /\ UNCHANGED <<stateVars, m_q, m_pc, m_chunks, m_ret, cb_pc, cb_blk, nblk,
                   g_on, g_snap, g_offput>>

\* main.on_ptt_up when the stream has delivered no block: mic.stop() finds the
\* queue empty and returns an empty array, and the handler says so and
\* returns.
on_ptt_up ==
    /\ m_q = <<>>
    /\ m_recording' = FALSE
    /\ m_ret' = NoAudio
    /\ said' = Speech(<<"No audio captured.">>, "en")
    /\ UNCHANGED <<stateVars, m_stream, m_sr, m_q, m_pc, m_chunks, cb_pc, cb_blk,
                   nblk, g_on, g_snap, g_offput>>

\* main.on_exit
on_exit ==
    /\ said' = Speech(<<"Goodbye.">>, "en")
    /\ UNCHANGED <<stateVars, micVars>>

KeyEv(k, st, c) == [op |-> "key", key |-> k, st |-> st, cb |-> c.cb, arg |-> c.arg]

\* The listener handles one key event: the handler of the backend in use, and
\* the callback of main.py it calls. Esc released ends the listener (pynput:
\* _on_release returns False; evdev: stop() and break).
KeyEvent ==
    \E k \in Keys, st \in KeyStates :
        LET c == Handler(k, st) IN
        /\ running
        /\ Len(calls) < MaxPtt
        /\ ev' = KeyEv(k, st, c)
        /\ UNCHANGED <<backend, now, exPanel>>
        /\ CASE c.cb = "on_digit" ->
                  /\ feed_digit(c.arg)
                  /\ UNCHANGED <<running, ptt_active, calls, micVars>>
             [] c.cb = "on_toggle_mode" ->
                  /\ toggle_mode
                  /\ UNCHANGED <<running, ptt_active, calls, micVars>>
             [] c.cb = "on_ptt_down" ->
                  /\ ptt_active' = TRUE
                  /\ on_ptt_down
                  /\ calls' = Append(calls, "down")
                  /\ UNCHANGED running
             [] c.cb = "on_ptt_up" ->
                  /\ ptt_active' = FALSE
                  /\ on_ptt_up
                  /\ calls' = Append(calls, "up")
                  /\ UNCHANGED running
             [] c.cb = "on_exit" ->
                  /\ on_exit
                  /\ running' = FALSE
                  /\ UNCHANGED <<ptt_active, calls>>
             [] OTHER ->
                  UNCHANGED <<stateVars, said, running, ptt_active, calls, micVars>>

\* A key event after the listener has ended: nobody handles it.
KeyUnheard ==
    \E k \in Keys, st \in KeyStates :
        /\ ~running
        /\ ev' = KeyEv(k, st, Nothing)
        /\ ev' # ev
        /\ UNCHANGED <<stateVars, now, said, kbdVars, micVars, exPanel>>

\* main(): the backend is chosen at import (evdev on headless Linux).
Init ==
    /\ StateInit
    /\ now = 0
    /\ said = Speech(<<"Translator ready.">>, "en")
    /\ backend \in {"pynput", "evdev"}
    /\ running = TRUE
    /\ ptt_active = FALSE
    /\ calls = <<>>
    /\ MicInit
    /\ ArgosIdle
    /\ ev = [op |-> "init", key |-> "", st |-> "", cb |-> "", arg |-> ""]

Next == KeyEvent \/ KeyUnheard

Spec == Init /\ [][Next]_vars

\* C3: in both backends on_ptt_down and on_ptt_up strictly alternate, starting
\* with on_ptt_down: a Backspace press (or auto-repeat) event during a hold
\* fires nothing, and a Backspace release outside a hold fires nothing.
Alternates(log) ==
    \A i \in DOMAIN log : log[i] = IF i % 2 = 1 THEN "down" ELSE "up"

BackspaceEvent(e, st) == e.op = "key" /\ e.key = "backspace" /\ e.st = st

C3_PttAlternates ==
    /\ [](Alternates(calls))
    /\ [][(running /\ ptt_active
            /\ (BackspaceEvent(ev', "down") \/ BackspaceEvent(ev', "hold")))
          => ev'.cb = "" /\ calls' = calls]_vars
    /\ [][(running /\ ~ptt_active /\ BackspaceEvent(ev', "up"))
          => ev'.cb = "" /\ calls' = calls]_vars
    /\ [][calls' # calls
          => \/ BackspaceEvent(ev', "down") /\ ev'.cb = "on_ptt_down"
             \/ BackspaceEvent(ev', "up") /\ ev'.cb = "on_ptt_up"]_vars

\* During the second hold a repeated Backspace press has fired nothing.
C3_Witness ==
    /\ calls = <<"down", "up", "down">>
    /\ ptt_active
    /\ BackspaceEvent(ev, "down") /\ ev.cb = ""

\* C4 as stated: once a hold is active, the Backspace release fires on_ptt_up
\* and stops the recording, whatever keys (Esc among them) came in between.
C4_ReleaseAlwaysStops ==
    [][(ptt_active /\ BackspaceEvent(ev', "up"))
       => ev'.cb = "on_ptt_up" /\ ~m_recording']_vars

\* C4, amended: during a hold the recording is on; every event other than an
\* Esc release and the Backspace release leaves the hold, the recording and the
\* listener as they are; the Backspace release fires on_ptt_up and stops the
\* recording as long as the listener runs; an Esc release during the hold ends
\* the listener, and from then on the hold and the recording stay on.
EscRelease(e) == e.op = "key" /\ e.key = "esc" /\ e.st = "up"

C4_ReleaseStopsUnlessEsc ==
    /\ [](ptt_active => m_recording)
    /\ [][(running /\ ptt_active /\ ~EscRelease(ev') /\ ~BackspaceEvent(ev', "up"))
          => running' /\ ptt_active' /\ m_recording']_vars
    /\ [][(running /\ ptt_active /\ BackspaceEvent(ev', "up"))
          => ev'.cb = "on_ptt_up" /\ ~ptt_active' /\ ~m_recording']_vars
    /\ [][(running /\ ptt_active /\ EscRelease(ev'))
          => ~running' /\ ptt_active' /\ m_recording']_vars
    /\ [][~running => UNCHANGED <<running, ptt_active, m_recording, calls>>]_vars

\* A hold that began with on_ptt_down has been ended by the Backspace release:
\* on_ptt_up fired and the recording is off.
C4_Witness ==
    /\ running
    /\ calls = <<"down", "up">>
    /\ BackspaceEvent(ev, "up") /\ ev.cb = "on_ptt_up"
    /\ m_stream /\ ~m_recording /\ ~ptt_active

\* ------------------------------------------------------------------------
\* SpecMic: the recorder, with start()/stop() called from one thread and
\* _callback run by the audio thread of the stream
\* ------------------------------------------------------------------------
MicOp(name) == [op |-> name]

InitMic ==
    /\ StateInit
    /\ now = 0
    /\ said = NoSpeech
    /\ KbdIdle
    /\ MicInit
    /\ ArgosIdle
    /\ ev = MicOp("init")

\* start()
MicStart ==
    /\ m_pc = "idle"
    /\ start
    /\ ev' = MicOp("start")
    /\ UNCHANGED <<exMic, m_q, m_pc, m_chunks, m_ret,
                   cb_pc, cb_blk, nblk, g_on, g_snap, g_offput>>

\* stop(): self._recording = False; chunks = []
StopBegin ==
    /\ m_pc = "idle"
    /\ m_recording' = FALSE
    /\ m_chunks' = <<>>
    /\ m_pc' = "drain"
    /\ ev' = MicOp("stop")
    /\ UNCHANGED <<exMic, m_stream, m_sr, m_q, m_ret,
                   cb_pc, cb_blk, nblk, g_on, g_snap, g_offput>>

\* stop(): one turn of  while not self._q.empty(): chunks.append(self._q.get())
StopGet ==
    /\ m_pc = "drain"
    /\ m_q # <<>>
    /\ m_chunks' = Append(m_chunks, Head(m_q))
    /\ m_q' = Tail(m_q)
    /\ ev' = MicOp("get")
    /\ UNCHANGED <<exMic, m_stream, m_sr, m_recording,
                   m_pc, m_ret, cb_pc, cb_blk, nblk, g_on, g_snap, g_offput>>

\* What stop() returns for the drained chunks: their concatenation, resampled
\* to 16 kHz when the stream ran at another rate (_resample_linear); the
\* blocks are kept by identity and the resampling as the rate it started from.
Audio(chunks) ==
    IF chunks = <<>> THEN NoAudio
    ELSE [blocks |-> chunks, resampled_from |-> m_sr]

\* stop(): the queue is found empty, the loop ends and the audio is returned
StopReturn ==
    /\ m_pc = "drain"
    /\ m_q = <<>>
    /\ m_ret' = Audio(m_chunks)
    /\ m_pc' = "idle"
    /\ g_snap' = g_on
    /\ g_on' = <<>>
    /\ ev' = MicOp("stop_return")
    /\ UNCHANGED <<exMic, m_stream, m_sr, m_recording,
                   m_q, m_chunks, cb_pc, cb_blk, nblk, g_offput>>

\* _callback, entered by the audio thread with the next block of the open
\* stream:  if self._recording:  -- the block is copied, or dropped
CallbackTest ==
    /\ m_stream
    /\ cb_pc = "idle"
    /\ nblk < MaxBlocks
    /\ nblk' = nblk + 1
    /\ IF m_recording
       THEN cb_pc' = "put" /\ cb_blk' = nblk + 1
       ELSE UNCHANGED <<cb_pc, cb_blk>>
    /\ ev' = MicOp("callback")
    /\ UNCHANGED <<exMic, m_stream, m_sr, m_recording,
                   m_q, m_pc, m_chunks, m_ret, g_on, g_snap, g_offput>>

\* _callback:  self._q.put(indata.copy())
CallbackPut ==
    /\ cb_pc = "put"
    /\ m_q' = Append(m_q, cb_blk)
    /\ cb_pc' = "idle"
    /\ g_on' = IF m_recording THEN Append(g_on, cb_blk) ELSE g_on
    /\ g_offput' = (g_offput \/ ~m_recording)
    /\ ev' = MicOp("put")
    /\ UNCHANGED <<exMic, m_stream, m_sr, m_recording,
                   m_pc, m_chunks, m_ret, cb_blk, nblk, g_snap>>

NextMic ==
    MicStart \/ StopBegin \/ StopGet \/ StopReturn \/ CallbackTest \/ CallbackPut

SpecMic == InitMic /\ [][NextMic]_vars

\* C5: stop() returns, in arrival order, exactly the blocks that were enqueued
\* while recording was on since the previous stop(); it leaves the queue empty
\* (the queue is empty whenever recording is off and no stop() is under way);
\* and no block is enqueued while recording is off.
C5_StopReturnsRecordedBlocks ==
    /\ ev.op = "stop_return" => m_ret.blocks = g_snap
    /\ (m_pc = "idle" /\ ~m_recording) => m_q = <<>>
    /\ ~g_offput

\* ------------------------------------------------------------------------
\* SpecTr: translate_text called with the installed pairs, the importability
\* of Argos and the translation engine's behaviour chosen freely
\* ------------------------------------------------------------------------
TrLangs == {"en", "es", "fr"}
TrTexts == {EmptyText, Blank, <<"hola">>}
\* the packages that may be installed
TrPackages == {<<"es", "fr">>, <<"es", "en">>, <<"en", "fr">>, <<"en", "en">>}

\* What t.translate may do in a call that can reach it; where translate_text
\* cannot reach it, the one outcome is a translation, which must not show.
EngineCalled(reachable, d, x) ==
    IF reachable /\ a_importable /\ x \notin {EmptyText, Blank}
    THEN EngineOutcomes(d, x)
    ELSE {Outcome(FALSE, Translated(d, x))}

InitTr ==
    /\ StateInit
    /\ now = 0
    /\ said = NoSpeech
    /\ KbdIdle
    /\ MicInit
    /\ a_importable \in BOOLEAN
    /\ a_pkgs \in SUBSET TrPackages
    /\ a_raises \in BOOLEAN
    /\ i_index = {} /\ i_online = FALSE /\ i_dlfail = {} /\ i_instfail = {}
    /\ t_cache = <<>>
    /\ t_ncalls = 0
    /\ HelperIdle
    /\ HoldIdle
    /\ ev = [op |-> "init"]

CallTranslateText ==
    \E src \in TrLangs, dst \in TrLangs, text \in TrTexts :
    \E o1 \in EngineCalled(PairExists(src, dst), dst, text),
       o2 \in EngineCalled(CanBridge(src, dst), BRIDGE_LANG, text),
       o3 \in EngineCalled(CanBridge(src, dst), dst, Translated(BRIDGE_LANG, text)) :
        LET r == translate_text(t_cache, src, dst, text, o1, o2, o3) IN
        /\ t_ncalls < MaxTrCalls
        /\ t_ncalls' = t_ncalls + 1
        /\ t_cache' = r.cache
        /\ ev' = [op |-> "translate_text", src |-> src, dst |-> dst, text |-> text,
                  out |-> r.out, path |-> r.path, direct |-> r.direct,
                  hop1 |-> r.hop1, hop2 |-> r.hop2]
        /\ UNCHANGED <<exTr, argosVars>>

NextTr == CallTranslateText

SpecTr == InitTr /\ [][NextTr]_vars

\* C6: translate_text returns the original text whenever translation is not
\* possible: the text is empty or white space, Argos cannot be imported, or
\* neither the pair src->dst nor both legs src->en and en->dst are installed.
\* (A get_translation that raises for a missing pair is caught: the call
\* returns a text in every case.)
IsCall(e) == e.op = "translate_text"
Installed(s, d) == <<s, d>> \in a_pkgs
NotPossible(e) ==
    \/ e.text \in {EmptyText, Blank}
    \/ ~a_importable
    \/ /\ ~Installed(e.src, e.dst)
       /\ ~(Installed(e.src, "en") /\ Installed("en", e.dst))

C6_UntranslatableReturnsText ==
    (IsCall(ev) /\ NotPossible(ev))
        => /\ ev.out = ev.text
           /\ ev.path \in {"blank", "no_argos", "none"}
           /\ ~ev.direct.tried /\ ~ev.hop1.tried /\ ~ev.hop2.tried

\* es->fr was asked for with only the first leg es->en installed: the text
\* came back as it was.
C6_Witness ==
    /\ IsCall(ev) /\ ev.src = "es" /\ ev.dst = "fr" /\ ev.text = <<"hola">>
    /\ a_importable /\ a_pkgs = {<<"es", "en">>}
    /\ ev.path = "none" /\ ev.out = <<"hola">>

\* C7: translate_text tries the direct pair first, and takes the bridge
\* src->en->dst only when the direct pair is missing or gave empty or unchanged
\* text, src and dst both differ from 'en', and both legs are installed; a
\* direct result that is neither empty nor unchanged is returned as it is;
\* when a hop of the bridge gives empty or unchanged text the original text is
\* returned, never the intermediate English text.
GaveNothing(r, x) == r.out \in {EmptyText, Blank, x}

C7_DirectFirstThenBridge ==
    (IsCall(ev) /\ ~NotPossible(ev)) =>
        /\ ev.direct.tried <=> Installed(ev.src, ev.dst)
        /\ (ev.direct.tried /\ ~GaveNothing(ev.direct, ev.text))
              => ev.out = ev.direct.out /\ ~ev.hop1.tried
        /\ ev.hop1.tried =>
              /\ ~ev.direct.tried \/ GaveNothing(ev.direct, ev.text)
              /\ ev.src # "en" /\ ev.dst # "en"
              /\ Installed(ev.src, "en") /\ Installed("en", ev.dst)
        /\ ev.hop2.tried => ev.hop1.tried /\ ~GaveNothing(ev.hop1, ev.text)
        /\ (ev.hop1.tried /\ GaveNothing(ev.hop1, ev.text)) => ev.out = ev.text
        /\ (ev.hop2.tried /\ GaveNothing(ev.hop2, ev.hop1.out))
              => ev.out = ev.text /\ ev.out # ev.hop1.out
        /\ (ev.hop2.tried /\ ~GaveNothing(ev.hop2, ev.hop1.out))
              => ev.out = ev.hop2.out

\* The direct pair es->fr gave the text back unchanged, the first hop gave
\* English, the second hop gave nothing: the original text was returned.
C7_Witness ==
    /\ IsCall(ev) /\ ev.src = "es" /\ ev.dst = "fr" /\ ev.text = <<"hola">>
    /\ ev.direct.tried /\ ev.direct.out = <<"hola">>
    /\ ev.hop1.tried /\ ev.hop1.out = <<"en", "hola">>
    /\ ev.hop2.tried /\ ev.hop2.out = EmptyText
    /\ ev.path = "hop2_failed" /\ ev.out = <<"hola">>

\* ------------------------------------------------------------------------
\* SpecIns: ensure_pair and install_pair called with the installed pairs, the
\* index, the network and the behaviour of the package manager chosen freely
\* ------------------------------------------------------------------------
InsLangs == {"en", "es", "fr"}
\* the packages that exist at all
InsPackages == {<<"en", "es">>, <<"en", "fr">>, <<"es", "fr">>}
\* the packages whose download or installation may fail
InsFragile == {<<"es", "fr">>}

InitIns ==
    /\ StateInit
    /\ now = 0
    /\ said = NoSpeech
    /\ KbdIdle
    /\ MicInit
    /\ a_importable \in BOOLEAN
    /\ a_raises \in BOOLEAN
    /\ a_pkgs \in SUBSET InsPackages
    /\ i_index \in SUBSET InsPackages
    /\ i_online \in BOOLEAN
    /\ i_dlfail \in SUBSET InsFragile
    /\ i_instfail \in SUBSET InsFragile
    /\ t_cache = <<>>
    /\ t_ncalls = 0
    /\ HelperIdle
    /\ HoldIdle
    /\ ev = [op |-> "init"]

InsEv(name, s, d, r) ==
    [op |-> name, src |-> s, dst |-> d, ret |-> r.ret, downloads |-> r.downloads,
     installs |-> r.installs, failed_at |-> r.failed_at]

\* The calls are for two different languages: for src = dst there is no
\* package to ask for.
CallEnsurePair ==
    \E s \in InsLangs, d \in InsLangs :
        LET r == ensure_pair(s, d) IN
        /\ s # d
        /\ a_pkgs' = r.pkgs
        /\ ev' = InsEv("ensure_pair", s, d, r)
        /\ UNCHANGED <<exIns, a_importable, a_raises, i_index, i_online,
                       i_dlfail, i_instfail>>

\* install_pair is reached from the helper with Argos imported.
CallInstallPair ==
    \E s \in InsLangs, d \in InsLangs :
        LET r == install_pair(s, d) IN
        /\ s # d
        /\ a_importable
        /\ a_pkgs' = r.pkgs
        /\ ev' = InsEv("install_pair", s, d, r)
        /\ UNCHANGED <<exIns, a_importable, a_raises, i_index, i_online,
                       i_dlfail, i_instfail>>

NextIns == CallEnsurePair \/ CallInstallPair

SpecIns == InitIns /\ [][NextIns]_vars

\* C8: ensure_pair returns True only if the pair src->dst is installed when
\* the call returns: True when it was installed already or was installed by
\* this call; False when Argos is missing, the index has no such package, or
\* the download or the installation failed.
IsEnsure(e) == e.op = "ensure_pair"

C8_EnsurePairTrueOnlyIfAvailable ==
    IsEnsure(ev) =>
        /\ ev.ret => <<ev.src, ev.dst>> \in a_pkgs
        /\ ~a_importable => ~ev.ret
        /\ ev.failed_at # "" => ~ev.ret

\* C9 as stated: an installer that reports a failed download or a failed
\* installation has attempted the failing call at least twice.
IsInstaller(e) == e.op \in {"ensure_pair", "install_pair"}

C9_InstallersRetry ==
    IsInstaller(ev) =>
        /\ ev.failed_at = "download" => ev.downloads >= 2
        /\ ev.failed_at = "install" => ev.installs >= 2

\* C9, amended: the installers make a single attempt. A call makes at most one
\* download() and one install_from_path() call; when either fails the call
\* reports failure at once, with no second attempt, and installs nothing.
C9_InstallersTryOnce ==
    [][IsInstaller(ev') =>
        /\ ev'.downloads <= 1 /\ ev'.installs <= ev'.downloads
        /\ ev'.failed_at = "download" =>
              ev'.downloads = 1 /\ ev'.installs = 0 /\ ~ev'.ret /\ a_pkgs' = a_pkgs
        /\ ev'.failed_at = "install" =>
              ev'.downloads = 1 /\ ev'.installs = 1 /\ ~ev'.ret /\ a_pkgs' = a_pkgs
        /\ (ev'.downloads = 1 /\ ev'.installs = 1 /\ ev'.failed_at = "") =>
              ev'.ret /\ a_pkgs' = a_pkgs \cup {<<ev'.src, ev'.dst>>}]_vars

\* install_pair gave up on es->fr after its one download() call failed.
C9_Witness ==
    /\ ev.op = "install_pair" /\ ev.src = "es" /\ ev.dst = "fr"
    /\ ev.failed_at = "download" /\ ev.downloads = 1 /\ ~ev.ret
    /\ <<"es", "fr">> \in i_index /\ <<"es", "fr">> \notin a_pkgs

\* ------------------------------------------------------------------------
\* SpecHelper: the install helper run, and run again
\* ------------------------------------------------------------------------
AllHelperPairs == {HelperPairs[i] : i \in DOMAIN HelperPairs}
\* what may be installed before the first run, missing from the index, failing
\* to download, failing to install
PreInstalled == {<<"en", "de">>, <<"es", "en">>}
NotInIndex == {<<"en", "ko">>}
BadDownload == {<<"ja", "en">>}
BadInstall == {<<"en", "zh">>}

InitHelper ==
    /\ StateInit
    /\ now = 0
    /\ said = NoSpeech
    /\ KbdIdle
    /\ MicInit
    /\ a_importable \in BOOLEAN
    /\ a_raises \in BOOLEAN
    /\ a_pkgs \in SUBSET PreInstalled
    /\ \E missing \in SUBSET NotInIndex : i_index = AllHelperPairs \ missing
    /\ i_online \in BOOLEAN
    /\ i_dlfail \in SUBSET BadDownload
    /\ i_instfail \in SUBSET BadInstall
    /\ t_cache = <<>>
    /\ t_ncalls = 0
    /\ HelperIdle
    /\ HoldIdle
    /\ ev = [op |-> "init"]

\* main() up to the install loop: without Argos the script exits with status
\* 1; a failed update of the index is only warned about.
HelperStart ==
    /\ h_pc \in {"idle", "done", "exit"}
    /\ h_run < MaxRuns
    /\ h_run' = h_run + 1
    /\ h_after_clean' = (h_pc = "done" /\ h_failed = <<>>)
    /\ h_pre' = a_pkgs
    /\ h_touched' = {}
    /\ h_installed' = <<>> /\ h_skipped' = <<>> /\ h_failed' = <<>>
    /\ IF a_importable THEN h_pc' = "loop" /\ h_i' = 1
       ELSE h_pc' = "exit" /\ h_i' = 0
    /\ ev' = [op |-> "helper_start"]
    /\ UNCHANGED <<exHelper, argosVars>>

\* One turn of the install loop: handle_pair for the next pair.
HandlePair ==
    /\ h_pc = "loop"
    /\ h_i \in DOMAIN HelperPairs
    /\ LET p == HelperPairs[h_i]
           r == handle_pair(p[1], p[2])
       IN /\ h_installed' = r.installed
          /\ h_skipped' = r.skipped
          /\ h_failed' = r.failed
          /\ a_pkgs' = r.pkgs
          /\ h_touched' = r.touched
          /\ ev' = [op |-> "handle_pair", pair |-> p]
    /\ h_i' = h_i + 1
    /\ UNCHANGED <<exHelper, a_importable, a_raises, i_index, i_online,
                   i_dlfail, i_instfail, h_pc, h_run, h_pre, h_after_clean>>

\* The loop is over: the summary is printed.
HelperSummary ==
    /\ h_pc = "loop"
    /\ h_i \notin DOMAIN HelperPairs
    /\ h_pc' = "done"
    /\ ev' = [op |-> "summary"]
    /\ UNCHANGED <<exHelper, argosVars, h_i, h_installed, h_skipped, h_failed,
                   h_run, h_pre, h_touched, h_after_clean>>

\* Between two runs the network and the package manager recover.
NetworkRecovers ==
    /\ h_pc = "done"
    /\ ~i_online \/ i_dlfail # {} \/ i_instfail # {}
    /\ i_online' = TRUE
    /\ i_dlfail' = {}
    /\ i_instfail' = {}
    /\ ev' = [op |-> "recover"]
    /\ UNCHANGED <<exHelper, helperVars, a_importable, a_raises, a_pkgs, i_index>>

NextHelper == HelperStart \/ HandlePair \/ HelperSummary \/ NetworkRecovers

SpecHelper == InitHelper /\ [][NextHelper]_vars

\* C10: when the install loop of a run has ended, each of the 18 pairs is in
\* exactly one of installed, skipped and failed (so a failed pair has not
\* stopped the pairs after it); a pair that was installed when the run began
\* is in skipped, and no download was called for it; and a run that follows a
\* run with no failed pair installs nothing.
Elems(list) == {list[i] : i \in DOMAIN list}

C10_HelperRerunSafe ==
    h_pc = "done" =>
        /\ Cardinality(AllHelperPairs) = 18
        /\ Len(h_installed) + Len(h_skipped) + Len(h_failed) = 18
        /\ Elems(h_installed) \cup Elems(h_skipped) \cup Elems(h_failed)
              = AllHelperPairs
        /\ \A q \in h_pre \cap AllHelperPairs :
              q \in Elems(h_skipped) /\ q \notin h_touched
        /\ h_after_clean => h_installed = <<>> /\ h_touched = {}

\* The helper has run again after a run in which no pair failed: the pair
\* installed before the first run and the pairs the first run installed are
\* all skipped.
C10_Witness ==
    /\ h_pc = "done" /\ h_run = 2
    /\ h_after_clean
    /\ a_raises
    /\ <<"en", "de">> \in h_pre /\ <<"ja", "en">> \in h_pre
    /\ Len(h_skipped) = 18

\* ------------------------------------------------------------------------
\* SpecState: the State object driven directly, with the clock running
\* ------------------------------------------------------------------------
InitState ==
    /\ StateInit
    /\ now = 0
    /\ said = NoSpeech
    /\ KbdIdle
    /\ MicInit
    /\ ArgosIdle
    /\ ev = Op("init", "", "")

\* time.time() moves on between two calls
Tick ==
    /\ now < MaxTime
    /\ now' = now + 1
    /\ ev' = Op("tick", "", "")
    /\ UNCHANGED <<stateVars, said, exState>>

CallFeedDigit ==
    \E d \in ASCIIDigits \cup {OtherDigit} :
        /\ feed_digit(d)
        /\ ev' = Op("feed_digit", d,
                    IF QuickProfile(d) THEN "quick"
                    ELSE IF d \in DOMAIN DIGIT_TO_LANG THEN "set" ELSE "unknown")
        /\ UNCHANGED <<now, exState>>

CallToggleMode ==
    /\ toggle_mode
    /\ ev' = Op("toggle_mode", mode, "")
    /\ UNCHANGED <<now, exState>>

NextState == Tick \/ CallFeedDigit \/ CallToggleMode

SpecState == InitState /\ [][NextState]_vars

\* C1: feed_digit(d), for d in '0'..'9' that does not complete a triple of
\* '0' presses within the window, sets the language of the current mode to
\* DIGIT_TO_LANG[d] and leaves the other language and the mode unchanged.
CompletesTriple(d) ==
    /\ d = "0"
    /\ Cardinality({i \in DOMAIN zero_times : now - zero_times[i] < ZeroWindow}) >= 2

C1_FeedDigitSetsLanguageOfMode ==
    [][(ev'.op = "feed_digit" /\ ev'.arg \in ASCIIDigits
            /\ ~CompletesTriple(ev'.arg))
        => /\ mode' = mode
           /\ mode = "target" =>
                 target' = DIGIT_TO_LANG[ev'.arg] /\ source' = source
           /\ mode = "source" =>
                 source' = DIGIT_TO_LANG[ev'.arg] /\ target' = target]_vars

\* A second '0' press in source mode, one short of the quick profile, has set
\* the source to English and left another target alone.
C1_Witness ==
    /\ ev.op = "feed_digit" /\ ev.arg = "0" /\ ev.branch = "set"
    /\ Len(zero_times) = 2
    /\ mode = "source" /\ source = "en" /\ target = "fr"

\* C2: toggle_mode switches mode between 'target' and 'source' and leaves
\* source, target and the zero-press history unchanged; a second toggle right
\* after the first restores the mode; the initial mode is 'target'.
\* (ev.arg of a toggle is the mode the toggle started from.)
C2_ToggleMode ==
    /\ mode = "target"
    /\ [][ev'.op = "toggle_mode"
            => /\ mode' # mode
               /\ {mode, mode'} = {"target", "source"}
               /\ UNCHANGED <<source, target, zero_times>>]_vars
    /\ [][(ev.op = "toggle_mode" /\ ev'.op = "toggle_mode")
            => mode' = ev.arg]_vars

\* A toggle back from source mode to target mode, with two '0' presses pending
\* and a target chosen.
C2_Witness ==
    /\ ev.op = "toggle_mode" /\ ev.arg = "source" /\ mode = "target"
    /\ Len(zero_times) = 2 /\ source = "en" /\ target = "de"

\* ------------------------------------------------------------------------
\* Functions checked on their own: the arguments are drawn in the initial
\* state (ev.op = "args"), one step applies the function, and every other
\* component stays at rest.
\* ------------------------------------------------------------------------
Rest ==
    /\ StateInit
    /\ now = 0
    /\ said = NoSpeech
    /\ KbdIdle
    /\ MicInit
    /\ ArgosIdle

exFun == <<stateVars, now, said, kbdVars, micVars, argosVars, trVars,
           helperVars, holdVars>>

\* A faulty variant of Before: of two equal keys the later one goes first.
BeforeLastWins(keys, j, i) == keys[j] > keys[i] \/ (keys[j] = keys[i] /\ j > i)

\* list.sort(key=..., reverse=True) on a list whose keys are the sequence
\* keys: the positions of the list in their sorted order. The sort is stable,
\* also with reverse=True: of two equal keys the one that came first stays
\* first.
Before(keys, j, i) == keys[j] > keys[i] \/ (keys[j] = keys[i] /\ j < i)

SortedDesc(keys) ==
    [r \in DOMAIN keys |->
        CHOOSE i \in DOMAIN keys :
            Cardinality({j \in DOMAIN keys : Before(keys, j, i)}) = r - 1]

Max(a, b) == IF a >= b THEN a ELSE b

\* ------------------------------------------------------------------------
\* past-versions/translator_gui.py: detect_with_prior
\* ------------------------------------------------------------------------
\* Probabilities and priors are counted in hundredths, their products (the
\* posteriors and min_conf) in ten-thousandths: 0.6 is 6000 and 1.0 is 10000.
\* A text of this file is a sequence of characters, "a" for any character
\* that is not white space.
GuiPrior == [en |-> 100, zh |-> 95, es |-> 93, fr |-> 86]
GUI_DEFAULT_PRIOR == 25
Certain == 10000
Mild == 6000
MinConf == 5500
MinChars == 6

Letters(n) == [i \in 1 .. n |-> "a"]

\* str.strip()
RECURSIVE StripLeft(_)
StripLeft(x) == IF x # <<>> /\ Head(x) = " " THEN StripLeft(Tail(x)) ELSE x
RECURSIVE StripRight(_)
StripRight(x) ==
    IF x # <<>> /\ x[Len(x)] = " " THEN StripRight(SubSeq(x, 1, Len(x) - 1))
    ELSE x
StripChars(x) == StripRight(StripLeft(x))

\* c.lang.split("-")[0]
BaseCode(lang) == IF lang = "zh-cn" THEN "zh" ELSE lang

\* POPULARITY_PRIOR.get(code, DEFAULT_PRIOR)
GuiPriorOf(code) ==
    IF code \in DOMAIN GuiPrior THEN GuiPrior[code] ELSE GUI_DEFAULT_PRIOR

\* What langdetect's detect_langs did with a text: it raised, or it returned
\* candidates (language, probability).
Cand(lang, prob) == [lang |-> lang, prob |-> prob]
DlRaises == [raises |-> TRUE, cands |-> <<>>]
DlGives(cands) == [raises |-> FALSE, cands |-> cands]

\* scored, before it is sorted
Scored(cands) ==
    [i \in DOMAIN cands |->
        <<BaseCode(cands[i].lang), cands[i].prob * GuiPriorOf(BaseCode(cands[i].lang))>>]

\* detect_with_prior(text, min_conf), with dl_ok whether langdetect was
\* imported and out what dl(text) does
detect_with_prior(text, min_conf, dl_ok, out) ==
    IF ~dl_ok THEN <<"en", Certain>>
    ELSE IF Len(StripChars(text)) < MinChars THEN <<"en", Mild>>
    ELSE IF out.raises THEN <<"en", Mild>>
    ELSE LET scored == Scored(out.cands) IN
         IF scored = <<>> THEN <<"en", Mild>>
         ELSE LET order == SortedDesc([i \in DOMAIN scored |-> scored[i][2]])
                  best == scored[order[1]]
              IN <<IF best[2] >= min_conf THEN best[1] ELSE "en",
                   Max(best[2], Mild)>>

\* ------------------------------------------------------------------------
\* SpecDetect: detect_with_prior called once
\* ------------------------------------------------------------------------
GuiTexts == {<<>>, <<" ">>, Letters(4), <<" ", " ">> \o Letters(2) \o <<" ", " ">>,
             Letters(6), Letters(7) \o <<" ">>}
DlOutcomes ==
    {DlRaises, DlGives(<<>>),
     DlGives(<<Cand("fr", 90)>>),
     DlGives(<<Cand("en", 60), Cand("fr", 40)>>),
     DlGives(<<Cand("fr", 50), Cand("en", 45)>>),
     DlGives(<<Cand("zh-cn", 50)>>),
     DlGives(<<Cand("xx", 100)>>)}

InitDetect ==
    /\ Rest
    /\ \E text \in GuiTexts, mc \in {0, MinConf}, ok \in BOOLEAN, out \in DlOutcomes :
          ev = [op |-> "args", text |-> text, min_conf |-> mc, dl_ok |-> ok,
                out |-> out]

CallDetectWithPrior ==
    /\ ev.op = "args"
    /\ ev' = [op |-> "detect_with_prior", text |-> ev.text,
              min_conf |-> ev.min_conf, dl_ok |-> ev.dl_ok, out |-> ev.out,
              ret |-> detect_with_prior(ev.text, ev.min_conf, ev.dl_ok, ev.out)]
    /\ UNCHANGED exFun

NextDetect == CallDetectWithPrior

SpecDetect == InitDetect /\ [][NextDetect]_vars

IsDetect(e) == e.op = "detect_with_prior"
TooShort(text) == Len(StripChars(text)) < MinChars

\* C15: without langdetect, or for a text of fewer than 6 characters after
\* stripping, detect_with_prior returns ('en', 1.0).
C15_FallsBackToEnCertain ==
    (IsDetect(ev) /\ (~ev.dl_ok \/ TooShort(ev.text))) => ev.ret = <<"en", Certain>>

\* ------------------------------------------------------------------------
\* past-versions/translator_gui.py: try_locales_and_pick_best
\* ------------------------------------------------------------------------
\* the locales of one call
MaxLocales == 2

\* score_text_with_prior(text): detect_with_prior with min_conf = 0.0
score_text_with_prior(text, dl_ok, out) == detect_with_prior(text, 0, dl_ok, out)

\* What the recognizer made of the audio under one locale: the text that
\* recognize_with_language returned (empty when the speech was not understood)
\* and what langdetect does with that text.
Hearing(txt, out) == [txt |-> txt, out |-> out]

\* The row of candidates for the locale at position i
Candidate(locales, heard, dl_ok, i) ==
    LET lp == score_text_with_prior(heard[i].txt, dl_ok, heard[i].out) IN
    [loc |-> locales[i], txt |-> heard[i].txt, lang |-> lp[1], post |-> lp[2],
     score |-> lp[2] * Max(1, Len(heard[i].txt))]

\* try_locales_and_pick_best(rec, audio, locales), with heard[i] what the
\* recognizer does under locales[i]
try_locales_and_pick_best(locales, heard, dl_ok) ==
    LET all == [i \in DOMAIN locales |-> Candidate(locales, heard, dl_ok, i)]
        candidates == SelectSeq(all, LAMBDA c : c.txt # <<>>)
    IN IF candidates = <<>> THEN <<"", <<>>, "en", 0>>
       ELSE LET order == SortedDesc([i \in DOMAIN candidates |-> candidates[i].score])
                best == candidates[order[1]]
            IN <<best.loc, best.txt, best.lang, best.post>>

\* ------------------------------------------------------------------------
\* SpecLocales: try_locales_and_pick_best called once
\* ------------------------------------------------------------------------
GuiLocales == {"en-US", "fr-FR"}
Hearings ==
    {Hearing(<<>>, DlRaises),
     Hearing(Letters(4), DlRaises),
     Hearing(Letters(7), DlGives(<<Cand("fr", 90)>>)),
     Hearing(Letters(7), DlGives(<<Cand("en", 60), Cand("fr", 40)>>)),
     Hearing(Letters(8), DlGives(<<Cand("xx", 100)>>)),
     Hearing(Letters(8), DlRaises)}

InitLocales ==
    /\ Rest
    /\ \E n \in 0 .. MaxLocales :
          \E locales \in [1 .. n -> GuiLocales], heard \in [1 .. n -> Hearings],
             ok \in BOOLEAN :
             ev = [op |-> "args", locales |-> locales, heard |-> heard,
                   dl_ok |-> ok]

CallTryLocales ==
    /\ ev.op = "args"
    /\ ev' = [op |-> "try_locales", locales |-> ev.locales, heard |-> ev.heard,
              dl_ok |-> ev.dl_ok,
              ret |-> try_locales_and_pick_best(ev.locales, ev.heard, ev.dl_ok)]
    /\ UNCHANGED exFun

NextLocales == CallTryLocales

SpecLocales == InitLocales /\ [][NextLocales]_vars

\* C11: try_locales_and_pick_best returns ('', '', 'en', 0.0) when no locale
\* gave text; otherwise it returns the locale, text, language and posterior
\* of the earliest locale, among those that gave text, whose score
\* posterior x max(1, length) no other such locale exceeds.
GaveText(e) == {i \in DOMAIN e.locales : e.heard[i].txt # <<>>}
ScoreAt(e, i) ==
    score_text_with_prior(e.heard[i].txt, e.dl_ok, e.heard[i].out)[2]
        * Max(1, Len(e.heard[i].txt))

C11_PicksBestLocale ==
    ev.op = "try_locales" =>
        IF GaveText(ev) = {} THEN ev.ret = <<"", <<>>, "en", 0>>
        ELSE \E i \in GaveText(ev) :
                /\ \A j \in GaveText(ev) : ScoreAt(ev, j) <= ScoreAt(ev, i)
                /\ \A j \in GaveText(ev) : j < i => ScoreAt(ev, j) < ScoreAt(ev, i)
                /\ ev.ret = <<ev.locales[i], ev.heard[i].txt>>
                      \o score_text_with_prior(ev.heard[i].txt, ev.dl_ok, ev.heard[i].out)

\* Two locales gave texts of the same score, read as different languages; the
\* first one was returned.
C11_Witness ==
    /\ ev.op = "try_locales" /\ ev.dl_ok
    /\ ev.locales = <<"fr-FR", "en-US">>
    /\ GaveText(ev) = {1, 2}
    /\ ScoreAt(ev, 1) = ScoreAt(ev, 2)
    /\ ev.heard[1].out = DlGives(<<Cand("xx", 100)>>)
    /\ ev.heard[2].out = DlRaises
    /\ ev.ret = <<"fr-FR", Letters(8), "xx", Mild>>

\* ------------------------------------------------------------------------
\* pi_translator.py: stt_vosk_auto
\* ------------------------------------------------------------------------
\* the models of one model_map
MaxModels == 2

\* A decoded text is a sequence of characters: "a" for a Latin letter, "k" for
\* a character of the CJK ranges. Scores are counted in 1/20000: 0.6 * conf,
\* with conf in hundredths, is 120 * conf.
Count(x, ch) == Cardinality({i \in DOMAIN x : x[i] = ch})
Min(a, b) == IF a <= b THEN a ELSE b

\* _looks_cjk(text)
looks_cjk(text) == Count(text, "k") > 0

\* cjk_ratio(text) < 0.20
CjkRatioBelowFifth(text) ==
    IF text = <<>> THEN TRUE ELSE 5 * Count(text, "k") < Max(1, Len(text))

\* What happens to one model of model_map: load is "missing" (no path, or the
\* path does not exist: load_vosk_model returns None), "broken" (the path
\* exists and VoskModel(path) raises) or "ok"; text and conf are what
\* _stream_decode_with_model returns, guessed what detect_lang_code makes of
\* the text ("" for None).
Decoding(load, text, conf, guessed) ==
    [load |-> load, text |-> text, conf |-> conf, guessed |-> guessed]

\* lang_key.startswith(guessed), for the codes of the model
StartsWith(lang_key, guessed) == lang_key = guessed

\* score of one candidate
VoskScore(lang_key, d) ==
    LET conf_score == Max(0, Min(100, d.conf))
        length_score == Min(Len(d.text), 200)
        zh_penalty == IF lang_key \in {"zh", "yue"} /\ CjkRatioBelowFifth(d.text)
                      THEN 20000 ELSE 0
        match_bonus ==
            IF d.guessed = "" THEN 0
            ELSE (IF StartsWith(lang_key, d.guessed) THEN 18000 ELSE 0)
                 + (IF d.guessed = "zh" /\ lang_key \in {"zh", "yue"} THEN 4000 ELSE 0)
        script_bonus ==
            IF (looks_cjk(d.text) /\ lang_key \in {"zh", "yue", "ja", "ko"})
               \/ (~looks_cjk(d.text) /\ lang_key = "en")
            THEN 8000 ELSE 0
    IN 120 * conf_score + 15 * length_score + match_bonus + script_bonus - zh_penalty

\* max(candidates, key=...): the position of the first candidate no other
\* exceeds
FirstMax(keys) ==
    CHOOSE i \in DOMAIN keys :
        /\ \A j \in DOMAIN keys : keys[j] <= keys[i]
        /\ \A j \in DOMAIN keys : j < i => keys[j] < keys[i]

VoskResult(raised, ret, tried) == [raised |-> raised, ret |-> ret, tried |-> tried]

\* stt_vosk_auto(audio, model_map), with langs the keys of model_map in their
\* order and dec[i] what happens to the model of langs[i]. tried counts the
\* models the loop reached.
stt_vosk_auto(avail, langs, dec) ==
    IF ~avail THEN VoskResult(FALSE, <<<<>>, None>>, 0)
    ELSE LET broken == {i \in DOMAIN langs : dec[i].load = "broken"} IN
         IF broken # {}
         THEN VoskResult(TRUE, <<>>, CHOOSE i \in broken : \A j \in broken : i <= j)
         ELSE LET all == [i \in DOMAIN langs |->
                             [lang |-> langs[i], text |-> dec[i].text,
                              load |-> dec[i].load,
                              score |-> VoskScore(langs[i], dec[i])]]
                  candidates == SelectSeq(all, LAMBDA c : c.load = "ok" /\ c.text # <<>>)
              IN IF candidates = <<>> THEN VoskResult(FALSE, <<<<>>, None>>, Len(langs))
                 ELSE LET best == candidates[FirstMax(
                                     [i \in DOMAIN candidates |-> candidates[i].score])]
                      IN VoskResult(FALSE, <<best.text, best.lang>>, Len(langs))

\* ------------------------------------------------------------------------
\* SpecVosk: stt_vosk_auto called once
\* ------------------------------------------------------------------------
VoskLangs == {"zh", "en", "ja"}
VoskTexts == {Letters(5), <<"k", "k", "k">>, <<"k">> \o Letters(5)}
Decodings ==
    {Decoding("missing", <<>>, 0, ""), Decoding("broken", <<>>, 0, ""),
     Decoding("ok", <<>>, 0, "")}
    \cup {Decoding("ok", t, c, g) : t \in VoskTexts, c \in {50, 100},
                                    g \in {"", "en", "zh"}}

InitVosk ==
    /\ Rest
    /\ \E n \in 0 .. MaxModels :
          \E langs \in [1 .. n -> VoskLangs], dec \in [1 .. n -> Decodings],
             avail \in BOOLEAN :
             /\ \A i, j \in 1 .. n : i # j => langs[i] # langs[j]
             /\ ev = [op |-> "args", avail |-> avail, langs |-> langs, dec |-> dec]

CallSttVoskAuto ==
    /\ ev.op = "args"
    /\ ev' = [op |-> "stt_vosk_auto", avail |-> ev.avail, langs |-> ev.langs,
              dec |-> ev.dec, res |-> stt_vosk_auto(ev.avail, ev.langs, ev.dec)]
    /\ UNCHANGED exFun

NextVosk == CallSttVoskAuto

SpecVosk == InitVosk /\ [][NextVosk]_vars

\* C12: stt_vosk_auto tries every model of model_map and returns the text and
\* the key of a model that loaded and decoded text and that no other such
\* model outscores; it returns ('', None) exactly when Vosk is unavailable or
\* no model gave text.
Produced(e) ==
    {i \in DOMAIN e.langs : e.dec[i].load = "ok" /\ e.dec[i].text # <<>>}

C12_TriesEveryModelPicksBest ==
    ev.op = "stt_vosk_auto" =>
        /\ ~ev.res.raised
        /\ ev.avail => ev.res.tried = Len(ev.langs)
        /\ ev.res.ret = <<<<>>, None>> <=> (~ev.avail \/ Produced(ev) = {})
        /\ (ev.avail /\ Produced(ev) # {}) =>
              \E i \in Produced(ev) :
                 /\ ev.res.ret = <<ev.dec[i].text, ev.langs[i]>>
                 /\ \A j \in Produced(ev) :
                       VoskScore(ev.langs[j], ev.dec[j]) <= VoskScore(ev.langs[i], ev.dec[i])

\* ------------------------------------------------------------------------
\* language_popularity.py
\* ------------------------------------------------------------------------
\* Probabilities and priors are counted in hundredths, posteriors in
\* ten-thousandths. A dict {code: prob} is the sequence of its items
\* <<code, prob>>, in the order of insertion, with no code twice.
POPULARITY_PRIOR ==
    "en" :> 100 @@ "zh" :> 95 @@ "es" :> 93 @@ "hi" :> 90 @@ "ar" :> 88
    @@ "fr" :> 86 @@ "ru" :> 84 @@ "pt" :> 83 @@ "de" :> 82 @@ "ja" :> 80
    @@ "id" :> 78 @@ "bn" :> 76 @@ "ur" :> 74 @@ "it" :> 73 @@ "tr" :> 72
    @@ "vi" :> 71 @@ "ko" :> 70 @@ "fa" :> 69 @@ "pl" :> 67 @@ "uk" :> 66
    @@ "nl" :> 65 @@ "th" :> 64 @@ "ro" :> 63 @@ "el" :> 62 @@ "sv" :> 61
    @@ "cs" :> 60 @@ "hu" :> 59 @@ "he" :> 58 @@ "da" :> 57 @@ "fi" :> 56
    @@ "no" :> 55 @@ "bg" :> 54 @@ "sk" :> 53 @@ "sr" :> 52 @@ "hr" :> 51
    @@ "sl" :> 50 @@ "lt" :> 49 @@ "lv" :> 48 @@ "et" :> 47 @@ "ms" :> 46
    @@ "ta" :> 45 @@ "te" :> 44 @@ "mr" :> 43 @@ "gu" :> 42 @@ "kn" :> 41
    @@ "ml" :> 40 @@ "ne" :> 39 @@ "si" :> 38 @@ "sw" :> 37 @@ "az" :> 36
    @@ "ka" :> 35 @@ "kk" :> 34 @@ "mn" :> 33 @@ "hy" :> 32 @@ "mk" :> 31
    @@ "be" :> 30 @@ "bs" :> 29 @@ "af" :> 28 @@ "is" :> 27 @@ "ga" :> 26
DEFAULT_PRIOR == 25

\* A faulty variant of prior: a code that is not listed has no prior at all.
prior_unlisted_is_zero(code) ==
    IF code \in DOMAIN POPULARITY_PRIOR THEN POPULARITY_PRIOR[code] ELSE 0

\* prior(code)
prior(code) ==
    IF code \in DOMAIN POPULARITY_PRIOR THEN POPULARITY_PRIOR[code] ELSE DEFAULT_PRIOR

\* rerank_with_popularity(candidates)
rerank_with_popularity(candidates) ==
    LET rows == [i \in DOMAIN candidates |->
                    <<candidates[i][1], candidates[i][2], prior(candidates[i][1]),
                      candidates[i][2] * prior(candidates[i][1])>>]
        order == SortedDesc([i \in DOMAIN rows |-> rows[i][4]])
    IN [r \in DOMAIN rows |-> rows[order[r]]]

\* pick_language(candidates)
pick_language(candidates) ==
    LET ranked == rerank_with_popularity(candidates) IN
    IF ranked = <<>> THEN "en" ELSE ranked[1][1]

\* ------------------------------------------------------------------------
\* SpecRerank: rerank_with_popularity and pick_language called once
\* ------------------------------------------------------------------------
\* the items of one dict of candidates
MaxCands == 2
LpCodes == {"en", "fr", "es", "xx"}
LpProbs == {10, 50, 90}
Dicts(n) ==
    {c \in [1 .. n -> LpCodes \X LpProbs] :
        \A i, j \in 1 .. n : i # j => c[i][1] # c[j][1]}

InitRerank ==
    /\ Rest
    /\ \E n \in 0 .. MaxCands : \E c \in Dicts(n) :
          ev = [op |-> "args", candidates |-> c]

CallRerank ==
    /\ ev.op = "args"
    /\ ev' = [op |-> "rerank_with_popularity", candidates |-> ev.candidates,
              ret |-> rerank_with_popularity(ev.candidates)]
    /\ UNCHANGED exFun

CallPickLanguage ==
    /\ ev.op = "args"
    /\ ev' = [op |-> "pick_language", candidates |-> ev.candidates,
              ret |-> pick_language(ev.candidates)]
    /\ UNCHANGED exFun

NextRerank == CallRerank \/ CallPickLanguage

SpecRerank == InitRerank /\ [][NextRerank]_vars

\* The prior the source lists for a code, and 0.25 for any other code
ListedPrior(code) ==
    CASE code = "en" -> 100 [] code = "fr" -> 86 [] code = "es" -> 93
      [] OTHER -> 25

\* The row a candidate must get
RowOf(item) ==
    <<item[1], item[2], ListedPrior(item[1]), item[2] * ListedPrior(item[1])>>

\* the rows are in the order of non-increasing posterior
NonIncreasing(rows) ==
    \A i, j \in DOMAIN rows : i < j => rows[i][4] >= rows[j][4]

\* C13: rerank_with_popularity returns one row (code, prob, prior, prob x
\* prior) per candidate, the prior being 0.25 for a code that is not listed,
\* in the order of non-increasing posterior; pick_language returns the code of
\* the first of these rows, and 'en' when there is no candidate.
C13_RerankAndPick ==
    /\ ev.op = "rerank_with_popularity" =>
          /\ Len(ev.ret) = Len(ev.candidates)
          /\ \A i \in DOMAIN ev.candidates :
                Cardinality({r \in DOMAIN ev.ret : ev.ret[r] = RowOf(ev.candidates[i])}) = 1
          /\ NonIncreasing(ev.ret)
    /\ ev.op = "pick_language" =>
          IF ev.candidates = <<>> THEN ev.ret = "en"
          ELSE \E i \in DOMAIN ev.candidates :
                  /\ ev.ret = ev.candidates[i][1]
                  /\ \A j \in DOMAIN ev.candidates :
                        RowOf(ev.candidates[j])[4] <= RowOf(ev.candidates[i])[4]

\* The unlisted code came first with the higher probability and is ranked
\* second, with the prior 0.25.
C13_Witness ==
    /\ ev.op = "rerank_with_popularity"
    /\ ev.candidates = <<<<"xx", 90>>, <<"fr", 50>>>>
    /\ ev.ret = <<<<"fr", 50, 86, 4300>>, <<"xx", 90, 25, 2250>>>>

\* ------------------------------------------------------------------------
\* language_popularity.py: detect_with_popularity and its two adapters
\* ------------------------------------------------------------------------
\* The labels of fastText and the codes they stand for
LabelOf == [en |-> "__label__en", fr |-> "__label__fr", es |-> "__label__es"]

\* "__label__" in key
ContainsLabel(key) == \E c \in DOMAIN LabelOf : LabelOf[c] = key

\* lbl.replace("__label__", "")
RemoveLabel(lbl) ==
    IF ContainsLabel(lbl) THEN CHOOSE c \in DOMAIN LabelOf : LabelOf[c] = lbl
    ELSE lbl

\* What a detector did: ok is FALSE when its import or its call raised; items
\* are the (label or language, probability) pairs it gave.
Detected(ok, items) == [ok |-> ok, items |-> items]

\* detect_langs_with_fasttext(text), with ft what fastText does
detect_langs_with_fasttext(ft) ==
    IF ~ft.ok THEN <<>>
    ELSE [i \in DOMAIN ft.items |-> <<RemoveLabel(ft.items[i][1]), ft.items[i][2]>>]

\* detect_langs_with_langdetect(text), with ld what langdetect does: of a
\* language given twice the higher probability is kept, at its first place
detect_langs_with_langdetect(ld) ==
    IF ~ld.ok THEN <<>>
    ELSE LET first == {i \in DOMAIN ld.items :
                          \A j \in DOMAIN ld.items : j < i => ld.items[j][1] # ld.items[i][1]}
             kept == SelectSeq([i \in DOMAIN ld.items |-> <<i, ld.items[i]>>],
                               LAMBDA e : e[1] \in first)
             BestProb(code) ==
                 CHOOSE p \in {ld.items[i][2] : i \in DOMAIN ld.items} :
                    /\ \E i \in DOMAIN ld.items : ld.items[i] = <<code, p>>
                    /\ \A i \in DOMAIN ld.items : ld.items[i][1] = code => ld.items[i][2] <= p
         IN [k \in DOMAIN kept |-> <<kept[k][2][1], BestProb(kept[k][2][1])>>]

\* dict(raw)[code], and whether code is a key of raw
InDict(raw, code) == \E i \in DOMAIN raw : raw[i][1] = code
ValueOf(raw, code) == raw[CHOOSE i \in DOMAIN raw : raw[i][1] = code][2]

PopularityResult(picked, ranked, raw, engine) ==
    [picked |-> picked, ranked |-> ranked, raw |-> raw, engine |-> engine]

\* abs(post1 - post2) / max(post1, 1e-9) < 0.20, for post1 >= post2 >= 0
WithinFifth(post1, post2) ==
    IF post1 = 0 THEN post2 = 0 ELSE 5 * (post1 - post2) < post1

\* detect_with_popularity(text, prefer)
detect_with_popularity(text, prefer, ft, ld) ==
    LET text_norm == StripChars(text) IN
    IF text_norm = <<>> THEN PopularityResult("en", <<>>, <<>>, "none")
    ELSE LET short == Len(text_norm) < 6
             fromft == detect_langs_with_fasttext(ft)
             raw == IF fromft # <<>> THEN fromft ELSE detect_langs_with_langdetect(ld)
             engine == IF raw # <<>> /\ ~ContainsLabel(raw[1][1]) THEN "fasttext"
                       ELSE IF raw # <<>> THEN "langdetect" ELSE "none"
         IN IF raw = <<>>
            THEN PopularityResult(IF prefer \in DOMAIN POPULARITY_PRIOR THEN prefer ELSE "en",
                                  <<>>, <<>>, "none")
            ELSE LET ranked == rerank_with_popularity(raw)
                     picked1 ==
                         IF short /\ Len(ranked) >= 2
                         THEN IF WithinFifth(ranked[1][4], ranked[2][4])
                              THEN (IF ranked[1][3] >= ranked[2][3] THEN ranked[1][1]
                                    ELSE ranked[2][1])
                              ELSE ranked[1][1]
                         ELSE ranked[1][1]
                     picked ==
                         IF prefer # None /\ InDict(raw, prefer) /\ ValueOf(raw, prefer) >= 20
                         THEN prefer ELSE picked1
                 IN PopularityResult(picked, ranked, raw, engine)

\* ------------------------------------------------------------------------
\* SpecPopularity: detect_with_popularity called once
\* ------------------------------------------------------------------------
LpTexts == {<<>>, <<" ">>, Letters(4), Letters(7)}
LpPrefers == {None, "fr", "qq"}
FtOutcomes ==
    {Detected(FALSE, <<>>),
     Detected(TRUE, <<<<"__label__en", 80>>, <<"__label__fr", 20>>>>),
     Detected(TRUE, <<<<"__label__fr", 50>>, <<"__label__es", 45>>>>)}
LdOutcomes ==
    {Detected(FALSE, <<>>),
     Detected(TRUE, <<<<"es", 70>>, <<"pt", 28>>>>),
     Detected(TRUE, <<<<"fr", 90>>>>)}

InitPopularity ==
    /\ Rest
    /\ \E text \in LpTexts, prefer \in LpPrefers, ft \in FtOutcomes, ld \in LdOutcomes :
          ev = [op |-> "args", text |-> text, prefer |-> prefer, ft |-> ft, ld |-> ld]

CallDetectWithPopularity ==
    /\ ev.op = "args"
    /\ ev' = [op |-> "detect_with_popularity", text |-> ev.text,
              prefer |-> ev.prefer, ft |-> ev.ft, ld |-> ev.ld,
              ret |-> detect_with_popularity(ev.text, ev.prefer, ev.ft, ev.ld)]
    /\ UNCHANGED exFun

NextPopularity == CallDetectWithPopularity

SpecPopularity == InitPopularity /\ [][NextPopularity]_vars

\* C14: the engine field of detect_with_popularity names the detector whose
\* candidates were used: 'fasttext' when fastText gave candidates,
\* 'langdetect' when fastText gave none and langdetect gave some, 'none' when
\* neither gave any.
FastTextGave(e) == StripChars(e.text) # <<>> /\ e.ft.ok /\ e.ft.items # <<>>
LangdetectGave(e) == StripChars(e.text) # <<>> /\ e.ld.ok /\ e.ld.items # <<>>

C14_EngineNamesDetector ==
    ev.op = "detect_with_popularity" =>
        ev.ret.engine = IF FastTextGave(ev) THEN "fasttext"
                        ELSE IF LangdetectGave(ev) THEN "langdetect"
                        ELSE "none"

\* ------------------------------------------------------------------------
\* pi_translator.py: InputController and recognize_speech_hold
\* ------------------------------------------------------------------------
\* the chunks one recording can hold
MaxChunks == 2
Chunks == {"b1", "b2"}

\* What the call returns: None, the empty string, or sr.AudioData(raw, ...)
RetNone == [kind |-> "None", raw |-> <<>>]
RetEmptyStr == [kind |-> "str", raw |-> <<>>]
AudioData(raw) == [kind |-> "AudioData", raw |-> raw]
NotReturned == [kind |-> "running", raw |-> <<>>]

\* InputController._on_click for the left button pressed
MousePress ==
    /\ r_pc # "idle"
    /\ ~r_holding
    /\ r_holding' = TRUE
    /\ ev' = [op |-> "press"]
    /\ UNCHANGED <<exHold, r_pc, r_quit, r_limit, r_buf, r_ret, r_started,
                   r_quit_first>>

\* InputController._on_click for the left button released
MouseRelease ==
    /\ r_pc # "idle"
    /\ r_holding
    /\ r_holding' = FALSE
    /\ ev' = [op |-> "release"]
    /\ UNCHANGED <<exHold, r_pc, r_quit, r_limit, r_buf, r_ret, r_started,
                   r_quit_first>>

\* InputController._on_click for the right button pressed, and _on_key_press
\* for Esc
QuitRequest ==
    /\ r_pc # "idle"
    /\ ~r_quit
    /\ r_quit' = TRUE
    /\ r_quit_first' = (r_quit_first \/ ~r_started)
    /\ ev' = [op |-> "quit"]
    /\ UNCHANGED <<exHold, r_pc, r_holding, r_limit, r_buf, r_ret, r_started>>

\* The call returns ret.
Return(ret) ==
    /\ r_pc' = "done"
    /\ r_ret' = ret

\* A faulty variant of Stopped: the captured bytes are returned also when
\* there are none.
StoppedAlwaysAudio(buf) == AudioData(buf)

\* "Stopped recording.": what is returned for the bytes captured
Stopped(buf) == IF buf = <<>> THEN RetEmptyStr ELSE AudioData(buf)

\* recognize_speech_hold is called.
HoldCall ==
    /\ r_pc = "idle"
    /\ r_pc' = "w_quit"
    /\ r_limit' \in BOOLEAN
    /\ ev' = [op |-> "call"]
    /\ UNCHANGED <<exHold, r_holding, r_quit, r_buf, r_ret, r_started,
                   r_quit_first>>

\* Waiting: if input_ctrl.should_quit(): return None
HoldWaitQuit ==
    /\ r_pc = "w_quit"
    /\ IF r_quit THEN Return(RetNone)
       ELSE r_pc' = "w_hold" /\ UNCHANGED r_ret
    /\ ev' = [op |-> "w_quit"]
    /\ UNCHANGED <<exHold, r_holding, r_quit, r_limit, r_buf, r_started,
                   r_quit_first>>

\* Waiting: if input_ctrl.is_holding(): break, and the recording starts with
\* an empty buffer; else sleep and look again
HoldWaitHold ==
    /\ r_pc = "w_hold"
    /\ IF r_holding THEN r_pc' = "r_quit" /\ r_started' = TRUE
       ELSE r_pc' = "w_quit" /\ UNCHANGED r_started
    /\ ev' = [op |-> "w_hold"]
    /\ UNCHANGED <<exHold, r_holding, r_quit, r_limit, r_buf, r_ret,
                   r_quit_first>>

\* Recording: if input_ctrl.should_quit(): return None
HoldRecQuit ==
    /\ r_pc = "r_quit"
    /\ IF r_quit THEN Return(RetNone)
       ELSE r_pc' = "r_hold" /\ UNCHANGED r_ret
    /\ ev' = [op |-> "r_quit"]
    /\ UNCHANGED <<exHold, r_holding, r_quit, r_limit, r_buf, r_started,
                   r_quit_first>>

\* Recording: if not input_ctrl.is_holding(): break
HoldRecHold ==
    /\ r_pc = "r_hold"
    /\ IF ~r_holding THEN Return(Stopped(r_buf))
       ELSE r_pc' = "r_read" /\ UNCHANGED r_ret
    /\ ev' = [op |-> "r_hold"]
    /\ UNCHANGED <<exHold, r_holding, r_quit, r_limit, r_buf, r_started,
                   r_quit_first>>

\* Recording: data = stream.read(chunk_size); no data ends the recording;
\* data is written to the buffer, and with max_seconds given the recording
\* ends when the time is up.
HoldRecRead ==
    /\ r_pc = "r_read"
    /\ \/ /\ Return(Stopped(r_buf))
          /\ UNCHANGED r_buf
       \/ \E data \in Chunks, time_up \in BOOLEAN :
             /\ Len(r_buf) < MaxChunks
             /\ time_up => r_limit
             /\ r_buf' = Append(r_buf, data)
             /\ IF time_up THEN Return(Stopped(r_buf'))
                ELSE r_pc' = "r_quit" /\ UNCHANGED r_ret
    /\ ev' = [op |-> "r_read"]
    /\ UNCHANGED <<exHold, r_holding, r_quit, r_limit, r_started, r_quit_first>>

\* ------------------------------------------------------------------------
\* SpecHold: one call of recognize_speech_hold, with the listeners running
\* ------------------------------------------------------------------------
InitHold ==
    /\ Rest
    /\ ev = [op |-> "init"]

NextHold ==
    \/ HoldCall \/ HoldWaitQuit \/ HoldWaitHold \/ HoldRecQuit \/ HoldRecHold
    \/ HoldRecRead \/ MousePress \/ MouseRelease \/ QuitRequest

SpecHold == InitHold /\ [][NextHold]_vars

VOICE_HINTS ==
    [en |-> [win |-> "Microsoft Zira", mac |-> "Samantha", lin |-> "en"],
     fr |-> [win |-> "Hortense", mac |-> "Amelie", lin |-> "fr"]]

\* VOICE_HINTS.get(lang, {}).get(os)
Hint(lang, os) ==
    IF lang \in DOMAIN VOICE_HINTS THEN VOICE_HINTS[lang][os] ELSE None

\* A voice of pyttsx3: its id, the hint names its name contains, and the
\* languages its metadata matches.
Voice(id, names, langs) == [id |-> id, names |-> names, langs |-> langs]
vEn == Voice("v_zira", {"Microsoft Zira", "Samantha"}, {"en"})
vNamed == Voice("v_hortense", {"Hortense", "Amelie"}, {})
vMeta == Voice("v_french", {}, {"fr"})
vLin == Voice("fr", {}, {})
AllVoices == <<vEn, vNamed, vMeta, vLin>>

\* The machine speak runs on: the platform, the voices pyttsx3 lists, and
\* what the calls into the engines do.
\*   init_ok     pyttsx3 is importable and pyttsx3.init() returns
\*   set_ignores setProperty("voice", id) with an id the engine does not
\*               have is ignored (the voice stays the default one); when
\*               FALSE it raises
\*   run_ok      eng.say / eng.runAndWait return
\*   say_ok      subprocess.run(["say", ...]) returns status 0
\*   espeak_ok   subprocess.run(["espeak-ng", ...]) returns status 0
Ids(voices) == {voices[i].id : i \in DOMAIN voices}

\* The id of the first voice among those at the positions idx, None when
\* there is none
FirstAt(voices, idx) ==
    IF idx = {} THEN None
    ELSE voices[CHOOSE i \in idx : \A j \in idx : i <= j].id

\* _match_voice(lang)
match_voice(m, lang) ==
    LET voices == IF m.init_ok THEN m.voices ELSE <<>>
        want_name == IF m.system = "Windows" THEN Hint(lang, "win")
                     ELSE IF m.system = "Darwin" THEN Hint(lang, "mac")
                     ELSE None
        byname == FirstAt(voices, {i \in DOMAIN voices : want_name \in voices[i].names})
    IN IF m.system = "Linux" /\ Hint(lang, "lin") # None THEN Hint(lang, "lin")
       ELSE IF want_name # None /\ byname # None THEN byname
       ELSE FirstAt(voices, {i \in DOMAIN voices : lang \in voices[i].langs})

\* What a backend did: whether it returned ok, and the voice it spoke with
\* ("" when it did not speak)
Backend(ok, voice) == [ok |-> ok, voice |-> voice]

\* _backend_pyttsx3(text, lang)
backend_pyttsx3(m, lang) ==
    IF ~m.init_ok THEN Backend(FALSE, "")
    ELSE LET voice_id == match_voice(m, lang) IN
         IF voice_id = None THEN Backend(FALSE, "")
         ELSE IF voice_id \notin Ids(m.voices) /\ ~m.set_ignores THEN Backend(FALSE, "")
         ELSE IF ~m.run_ok THEN Backend(FALSE, "")
         ELSE Backend(TRUE, IF voice_id \in Ids(m.voices) THEN voice_id ELSE "default")

\* _backend_macos_say(text, lang)
backend_macos_say(m, lang) ==
    IF m.system # "Darwin" THEN Backend(FALSE, "")
    ELSE IF ~m.say_ok THEN Backend(FALSE, "")
    ELSE Backend(TRUE, IF Hint(lang, "mac") # None THEN Hint(lang, "mac") ELSE "default")

\* _backend_espeak(text, lang)
backend_espeak(m, lang) ==
    IF m.system # "Linux" THEN Backend(FALSE, "")
    ELSE IF ~m.espeak_ok THEN Backend(FALSE, "")
    ELSE Backend(TRUE, IF Hint(lang, "lin") # None THEN Hint(lang, "lin") ELSE lang)

\* What one call of speak did: the backends it called, in order, with what
\* each did, and whether it printed "[TTS] All backends failed."
Spoken(tried, all_failed) == [tried |-> tried, all_failed |-> all_failed]
Try(name, b) == [name |-> name, ok |-> b.ok, voice |-> b.voice]

\* speak(text, lang)
speak(m, text, lang) ==
    IF text = <<>> THEN Spoken(<<>>, FALSE)
    ELSE LET b1 == Try("pyttsx3", backend_pyttsx3(m, lang))
             b2 == Try("say", backend_macos_say(m, lang))
             b3 == Try("espeak-ng", backend_espeak(m, lang))
         IN IF b1.ok THEN Spoken(<<b1>>, FALSE)
            ELSE IF b2.ok THEN Spoken(<<b1, b2>>, FALSE)
            ELSE IF b3.ok THEN Spoken(<<b1, b2, b3>>, FALSE)
            ELSE Spoken(<<b1, b2, b3>>, TRUE)

\* ------------------------------------------------------------------------
\* SpecSpeak: speak called once
\* ------------------------------------------------------------------------
Systems == {"Windows", "Darwin", "Linux"}
SpeakLangs == {"fr", "xx"}
SpeakTexts == {<<>>, <<"bonjour">>}
Machines ==
    {[system |-> sy, voices |-> SelectSeq(AllVoices, LAMBDA v : v \in vs),
      init_ok |-> io, set_ignores |-> si, run_ok |-> ro, say_ok |-> so,
      espeak_ok |-> eo] :
        sy \in Systems, vs \in SUBSET {vEn, vNamed, vMeta, vLin},
        io \in BOOLEAN, si \in BOOLEAN, ro \in BOOLEAN, so \in BOOLEAN,
        eo \in BOOLEAN}

InitSpeak ==
    /\ Rest
    /\ \E m \in Machines, text \in SpeakTexts, lang \in SpeakLangs :
          ev = [op |-> "args", m |-> m, text |-> text, lang |-> lang]

CallSpeak ==
    /\ ev.op = "args"
    /\ ev' = [op |-> "speak", m |-> ev.m, text |-> ev.text, lang |-> ev.lang,
              res |-> speak(ev.m, ev.text, ev.lang)]
    /\ UNCHANGED exFun

NextSpeak == CallSpeak

SpecSpeak == InitSpeak /\ [][NextSpeak]_vars

\* C17: speak does nothing for an empty text; otherwise it calls pyttsx3,
\* macOS say and espeak-ng in this order and stops at the first that
\* succeeds, so that at most one of them speaks; it prints "All backends
\* failed." only if the three of them failed; and pyttsx3 does not speak with
\* its default voice when none of its voices matches the language (by the id
\* hinted for Linux, by the name hinted for Windows or macOS, or by its
\* language metadata).
BackendOrder == <<"pyttsx3", "say", "espeak-ng">>

VoiceMatches(v, lang) ==
    \/ v.id = Hint(lang, "lin")
    \/ Hint(lang, "win") \in v.names
    \/ Hint(lang, "mac") \in v.names
    \/ lang \in v.langs

NoVoiceMatches(m, lang) ==
    \A i \in DOMAIN m.voices : ~VoiceMatches(m.voices[i], lang)

InOrderUntilSuccess(tried) ==
    /\ Len(tried) \in 1 .. 3
    /\ \A i \in DOMAIN tried : tried[i].name = BackendOrder[i]
    /\ \A i \in DOMAIN tried : i < Len(tried) => ~tried[i].ok
    /\ Len(tried) < 3 => tried[Len(tried)].ok
    /\ Cardinality({i \in DOMAIN tried : tried[i].voice # ""}) <= 1

C17_SpeakFallsBackInOrder ==
    ev.op = "speak" =>
        /\ ev.text = <<>> => ev.res = Spoken(<<>>, FALSE)
        /\ ev.text # <<>> => InOrderUntilSuccess(ev.res.tried)
        /\ ev.res.all_failed =>
              Len(ev.res.tried) = 3 /\ \A i \in 1 .. 3 : ~ev.res.tried[i].ok
        /\ \A i \in DOMAIN ev.res.tried :
              (ev.res.tried[i].name = "pyttsx3" /\ NoVoiceMatches(ev.m, ev.lang))
                  => ev.res.tried[i].voice # "default"


\* ------------------------------------------------------------------------
\* main.py: on_ptt_up, the whole handler
\* ------------------------------------------------------------------------
\* What stt.transcribe(audio, src_lang or "en") gives: None when no recogniser
\* is loaded or its result cannot be parsed, or the stripped text, which may
\* be empty.
Transcript(none, text) == [none |-> none, text |-> text]
Transcripts ==
    {Transcript(TRUE, EmptyText), Transcript(FALSE, EmptyText),
     Transcript(FALSE, <<"hola">>)}

\* langdetect at the time of the call: not importable (_LANGDETECT False),
\* raising, or giving a code, which may be empty.
LangDetect(avail, raises, code) ==
    [avail |-> avail, raises |-> raises, code |-> code]
LangDetectOutcomes ==
    {LangDetect(FALSE, FALSE, ""), LangDetect(TRUE, TRUE, "")} \cup
    {LangDetect(TRUE, FALSE, c) : c \in {"", "en", "es", "fr"}}

\* on_ptt_up: src_lang after  if src_lang is None: ...  , where sel is
\* state.source and det what langdetect does.
SourceLang(sel, det) ==
    IF sel # None THEN sel
    ELSE IF det.avail /\ ~det.raises /\ det.code # "" THEN det.code
    ELSE "en"

\* A faulty variant of Reply: the output is spoken with the source language.
ReplyInSourceVoice(src_lang, dst_lang, text, translated) ==
    Speech(IF src_lang = dst_lang THEN text ELSE translated, src_lang)

\* on_ptt_up:  out = text if src_lang == dst_lang else translate_text(...);
\* speak(out, dst_lang).  translated is what translate_text returns where it
\* is called.
Reply(src_lang, dst_lang, text, translated) ==
    Speech(IF src_lang = dst_lang THEN text ELSE translated, dst_lang)

\* The record of one on_ptt_up call: whether audio was captured, the
\* transcript, what langdetect did, whether translate_text was called, with
\* which arguments and with what result, and the number of translate_text
\* calls made before the handler ran.
PttUp(audio, text, det, called, args, out, before) ==
    [op |-> "on_ptt_up", audio |-> audio, text |-> text, det |-> det,
     called |-> called, args |-> args, out |-> out, before |-> before]

NoArgs == <<"", "", EmptyText>>

\* mic.stop() as on_ptt_up sees it: recording ends, the queue is drained and
\* its blocks are the audio.
MicStop ==
    /\ m_recording' = FALSE
    /\ m_ret' = Audio(m_q)
    /\ m_q' = <<>>
    /\ UNCHANGED <<m_stream, m_sr, m_pc, m_chunks, cb_pc, cb_blk, nblk,
                   g_on, g_snap, g_offput>>

\* _callback while the key is held: the next block of the stream is queued;
\* a block is named by its place in the recording.
PttBlock ==
    /\ m_stream
    /\ m_recording
    /\ Len(m_q) < MaxBlocks
    /\ m_q' = Append(m_q, Len(m_q) + 1)
    /\ ev' = MicOp("callback")
    /\ UNCHANGED <<exMic, m_stream, m_sr, m_recording, m_pc, m_chunks, m_ret,
                   cb_pc, cb_blk, nblk, g_on, g_snap, g_offput>>

\* on_ptt_down, called by the keyboard on the press of the PTT key
PttPress ==
    /\ ~m_recording
    /\ on_ptt_down
    /\ ev' = [op |-> "on_ptt_down"]
    /\ UNCHANGED <<now, kbdVars, argosVars, trVars, helperVars, holdVars>>

\* What t.translate does in a call on_ptt_up leads to: it raises or it
\* translates; where translate_text cannot reach it, the one outcome is a
\* translation, which must not show.
PttEngine(reachable, d, x) ==
    IF reachable /\ x \notin {EmptyText, Blank}
    THEN {Outcome(TRUE, EmptyText), Outcome(FALSE, Translated(d, x))}
    ELSE {Outcome(FALSE, Translated(d, x))}

\* on_ptt_up, called by the keyboard on the release of the PTT key
PttRelease ==
    \E h \in Transcripts, det \in LangDetectOutcomes :
        LET src_lang == SourceLang(source, det)
            dst_lang == target
        IN
        /\ m_recording
        /\ m_pc = "idle"
        /\ MicStop
        /\ IF m_q = <<>>
           THEN /\ said' = Speech(<<"No audio captured.">>, "en")
                /\ ev' = PttUp(FALSE, EmptyText, det, FALSE, NoArgs, EmptyText,
                               t_ncalls)
                /\ UNCHANGED trVars
           ELSE IF h.none \/ h.text = EmptyText
           THEN /\ said' = Speech(<<"I did not catch that.">>, "en")
                /\ ev' = PttUp(TRUE, EmptyText, det, FALSE, NoArgs, EmptyText,
                               t_ncalls)
                /\ UNCHANGED trVars
           ELSE IF src_lang = dst_lang
           THEN /\ said' = Reply(src_lang, dst_lang, h.text, EmptyText)
                /\ ev' = PttUp(TRUE, h.text, det, FALSE, NoArgs, EmptyText,
                               t_ncalls)
                /\ UNCHANGED trVars
           ELSE \E o1 \in PttEngine(PairExists(src_lang, dst_lang),
                                       dst_lang, h.text),
                   o2 \in PttEngine(CanBridge(src_lang, dst_lang),
                                       BRIDGE_LANG, h.text),
                   o3 \in PttEngine(CanBridge(src_lang, dst_lang), dst_lang,
                                       Translated(BRIDGE_LANG, h.text)) :
                    LET r == translate_text(t_cache, src_lang, dst_lang,
                                            h.text, o1, o2, o3)
                    IN  /\ t_ncalls < MaxTrCalls
                        /\ t_ncalls' = t_ncalls + 1
                        /\ t_cache' = r.cache
                        /\ said' = Reply(src_lang, dst_lang, h.text, r.out)
                        /\ ev' = PttUp(TRUE, h.text, det, TRUE,
                                       <<src_lang, dst_lang, h.text>>, r.out,
                                       t_ncalls)
        /\ UNCHANGED <<stateVars, now, kbdVars, argosVars, helperVars,
                       holdVars>>

\* The digit keys of the languages the installed packages know, and '0'
PttDigits == {"0", "2", "3"}

\* on_digit -> state.feed_digit
PttFeedDigit ==
    \E d \in PttDigits :
        /\ feed_digit(d)
        /\ ev' = Op("feed_digit", d, IF QuickProfile(d) THEN "quick" ELSE "set")
        /\ UNCHANGED <<now, exState>>

\* on_toggle_mode -> state.toggle_mode
PttToggleMode ==
    /\ toggle_mode
    /\ ev' = Op("toggle_mode", mode, "")
    /\ UNCHANGED <<now, exState>>

PttPackages == {{}, {<<"es", "en">>, <<"en", "fr">>}}

InitPtt ==
    /\ StateInit
    /\ now = 0
    /\ said = NoSpeech
    /\ KbdIdle
    /\ MicInit
    /\ a_importable = TRUE
    /\ a_pkgs \in PttPackages
    /\ a_raises = FALSE
    /\ i_index = {} /\ i_online = FALSE /\ i_dlfail = {} /\ i_instfail = {}
    /\ t_cache = <<>>
    /\ t_ncalls = 0
    /\ HelperIdle
    /\ HoldIdle
    /\ ev = [op |-> "init"]

NextPtt ==
    \/ PttPress
    \/ PttBlock
    \/ PttRelease
    \/ PttFeedDigit
    \/ PttToggleMode

SpecPtt == InitPtt /\ [][NextPtt]_vars

\* on_ptt_up has just returned after capturing audio and hearing a text
Answered == ev.op = "on_ptt_up" /\ ev.audio /\ ev.text # EmptyText

\* The source language of the call that has just returned: the selected one,
\* or the detected one when none is selected
EffectiveSource ==
    IF source # None THEN source
    ELSE IF ev.det.avail /\ ~ev.det.raises /\ ev.det.code # "" THEN ev.det.code
    ELSE "en"

\* C18: on PTT release with non-empty audio and a non-empty transcript, the
\* transcript itself is spoken when the selected or detected source language
\* equals the target language, and translate_text is not called; otherwise
\* the result of translate_text(source, target, transcript) is spoken; in
\* both cases the speech is in the target language.
C18_SpeaksTranscriptOrTranslation ==
    Answered =>
        /\ said.lang = target
        /\ EffectiveSource = target =>
              /\ said.text = ev.text
              /\ ~ev.called
              /\ t_ncalls = ev.before
        /\ EffectiveSource # target =>
              /\ ev.called
              /\ ev.args = <<EffectiveSource, target, ev.text>>
              /\ said.text = ev.out
              /\ t_ncalls = ev.before + 1

\* A detected source language that differs from the target was translated
\* by the engine, and the translation was spoken in the target language.
C18_Witness ==
    /\ Answered
    /\ source = None
    /\ ev.det.code = "es"
    /\ target = "fr"
    /\ ev.called
    /\ ev.out = Translated("fr", Translated("en", ev.text))
    /\ said = Speech(ev.out, "fr")

====
